---- MODULE Spec2Model ----
(***************************************************************************)
(* Model of the Jupyter kernel client runtime of jute                      *)
(* (src-tauri/src/backend): the KernelConnection facade with its           *)
(* correlation map and PendingRequest handles, the ZeroMQ and WebSocket    *)
(* drivers' background loops, and the run_cell reader task.                *)
(***************************************************************************)
EXTENDS Integers, Sequences, FiniteSets, TLC

(* ---------------------------------------------------------------------- *)
(* Bounds of the model and constants of the program                       *)
(* ---------------------------------------------------------------------- *)

\* Number of tracked call_shell/call_control invocations.
MaxReq == 2

\* Number of live clones of the KernelConnection.
MaxClones == 2

\* Number of run_cell invocations.
MaxRun == 1

\* Number of unread IOPub messages the kernel lets pile up while a run_cell is
\* observed.
MaxBuf == 1

\* Number of buffers of a message whose conversion is checked.
MaxBuffers == 1

\* Number of IOPub messages the kernel publishes while their order is observed.
MaxPub == 3

\* async_channel::bounded(8) for the shell send queue.
ShellCap == 8

\* async_channel::bounded(8) for the control send queue.
ControlCap == 8

\* async_channel::bounded(64) for the IOPub receive queue.
IopubCap == 64

Slots == 1..MaxReq
\* The msg_id values tracked calls may carry.
MsgIds == 1..MaxReq
Chans == {"shell", "control"}
Drivers == {"zmq", "ws"}
Futs == {"shell", "control", "iopub", "send", "receive"}

VARIABLES
    driver,        \* which constructor built the connection: "zmq" or "ws"
    pc,            \* per tracked call: where the caller stands
    req,           \* per tracked call: the msg_id and channel of its message
    reply_tx_map,  \* correlation map: msg_id -> call holding the one-shot receiver (0 = no entry)
    oneshot,       \* per tracked call: state of its one-shot reply channel
    shell_q,       \* shell send queue (shell_tx / shell_rx)
    control_q,     \* control send queue (control_tx / control_rx)
    iopub_q,       \* IOPub receive queue (iopub_tx / iopub_rx)
    hand,          \* the IOPub message the driver holds while its push is suspended
    closed,        \* close() has closed the three queues
    signal,        \* the CancellationToken has been cancelled
    clones,        \* number of live KernelConnection clones
    fut,           \* the driver's loops: position and message in hand
    task,          \* the spawned driver task: "running" or "exited"
    sock_ok,       \* the transport (sockets / WebSocket) is still healthy
    inserted,      \* history: tracked calls whose correlation entry has been inserted
    ndeliv,        \* history: number of replies put into each call's one-shot channel
    at_close,      \* history: the calls that were suspended on a full send queue when close() ran
    at_exit,       \* history: where each loop stood when the driver task ended
    rc,            \* per run_cell invocation: its position, call slot and reader state
    cin,           \* payload codecs: the message, signing key and channel to convert
    cwire,         \* payload codecs: the payload to decode (frames or bytes)
    cout,          \* payload codecs: what decoding the payload gave
    hist,          \* history: messages enqueued, handed to the transport, received, returned
    body,          \* per tracked call: the content of the reply in its one-shot channel
    lk,            \* LocalKernel::start: its position, ports, connection file, child process
    ks             \* list_kernels: the environment, the file system, the search path, the kernels found

\* The connection, its callers and its driver.
connVars == <<driver, pc, req, reply_tx_map, oneshot, shell_q, control_q, iopub_q, hand,
              closed, signal, clones, fut, task, sock_ok, inserted, ndeliv, at_close,
              at_exit>>

\* The run_cell invocations.
runVars == <<rc>>

\* The payload codecs applied on their own.
codecVars == <<cin, cwire, cout>>

\* The history of the messages that went through the queues.
histVars == <<hist>>

\* The contents of the replies delivered to the calls.
infoVars == <<body>>

\* The launch of a local kernel.
localVars == <<lk, ks>>

\* Everything but the connection.
restVars == <<runVars, codecVars, histVars, infoVars, localVars>>

vars == <<connVars, restVars>>

\* The run_cell invocations of a behaviour.
Runs == DOMAIN rc

(* ---------------------------------------------------------------------- *)
(* Values                                                                  *)
(* ---------------------------------------------------------------------- *)

\* A queued message: its header.msg_id and (ghost) the tracked call that built it.
\* by = 0 marks a message of an untracked caller, whose msg_id (0) differs from
\* every tracked msg_id.
Msg(m, c) == [id |-> m, by |-> c]
Untracked == Msg(0, 0)
NoMsg == Msg(-1, 0)

NoReq == [id |-> 0, chan |-> "shell"]

\* oneshot::channel(): the sender is alive and nothing was sent.
OneshotNew == [st |-> "empty", parent |-> 0, chan |-> "none"]

FutIdle(p) == [pc |-> p, msg |-> NoMsg, ch |-> "none"]

\* The content of a reply: its "status" field, whether the other fields fit the
\* type the status selects (U for ok, ErrorReply for error), and the value they
\* give.
Content(st, f, v) == [status |-> st, fits |-> f, value |-> v]
NoContent == Content("none", FALSE, 0)

\* LocalKernel::start has not been called. env is the value of
\* JUPYTER_RUNTIME_DIR (<<>> when unset) and spec the argv of the KernelSpec; a
\* string is a sequence of tokens, every path separator a token of its own.
NoLaunch == [pc |-> "idle", env |-> <<>>, spec |-> <<>>, ports |-> <<>>, id |-> "none",
             file |-> <<>>, argv |-> <<>>, child |-> "none", err |-> "none",
             log |-> <<>>]

\* list_kernels has not been called. jupyter_path, jupyter_data_dir and
\* xdg_data_home are the environment variables ([set, val]), prefix the
\* interpreter prefix, fs the listing of each <dir>/kernels directory.
NoListing == [pc |-> "idle", jupyter_path |-> [set |-> FALSE, val |-> <<>>],
              jupyter_data_dir |-> [set |-> FALSE, val |-> <<>>],
              xdg_data_home |-> [set |-> FALSE, val |-> <<>>],
              prefix |-> [set |-> FALSE, val |-> <<>>],
              fs |-> <<>>, dirs |-> <<>>, next |-> 0, kernels |-> <<>>]

\* The IOPub message kinds run_cell tells apart; "other" is any other msg_type.
Kinds == {"status", "stream", "execute_input", "execute_result", "display_data",
          "update_display_data", "clear_output", "error", "other"}

\* The kinds whose content run_cell deserializes with into_typed.
TypedKinds == Kinds \ {"execute_input", "other"}

\* KernelStatus
KernelStatus == {"starting", "idle", "busy"}

\* A decoded IOPub message: its msg_type, whether its content deserializes into
\* the type of that kind (ok), the execution_state of a well-formed status
\* message ("none" otherwise), its parent_header.msg_id (0: no parent header,
\* or the msg_id of a request that is not a tracked call) and the content's name
\* field of a stream message ("none" otherwise).
IopubMsg(k, o, st, par) ==
    [kind |-> k, ok |-> o, state |-> st, parent |-> par,
     name |-> IF k = "stream" THEN "stdout" ELSE "none"]

\* A well-formed stream message with the given name.
StreamMsg(nm) == [IopubMsg("stream", TRUE, "none", 0) EXCEPT !.name = nm]

\* The names a kernel gives its streams, and one that is neither.
StreamNames == {"stdout", "stderr", "stdlog"}
NoIopub == IopubMsg("none", FALSE, "none", 0)

\* The parent msg_ids an IOPub message may carry: none or a foreign one (0), or
\* the msg_id of the execute_request of a run_cell.
Parents == 0..MaxRun

\* The IOPub messages a kernel may publish: an idle status with every parent,
\* the other statuses, and every kind with content that does or does not
\* deserialize.
IopubMsgs ==
    {IopubMsg("status", TRUE, "idle", par) : par \in Parents}
    \cup {IopubMsg("status", TRUE, st, 0) : st \in KernelStatus \ {"idle"}}
    \cup {IopubMsg("status", FALSE, "none", 0)}
    \cup {IopubMsg(k, o, "none", 0) : k \in Kinds \ {"status"}, o \in BOOLEAN}
    \cup {StreamMsg(nm) : nm \in StreamNames}

\* A stream of output messages that nobody reads.
Flood == {IopubMsg("stream", TRUE, "none", 0)}

\* A run_cell invocation that has not started; events is the content of the
\* channel whose receiver run_cell returns, ndisc the number of Disconnect events
\* sent into it so far. For an invocation that is observed, found tells until
\* the reader has ended whether there were messages in the IOPub queue when
\* run_cell was invoked, and stale is the number of those still in it.
NoRun ==
    [pc |-> "idle", slot |-> 0, status |-> "busy", cause |-> "none", endparent |-> -1,
     events |-> <<>>, ndisc |-> 0, found |-> FALSE, stale |-> 0]

(* ---------------------------------------------------------------------- *)
(* Payload codecs: serde_json, driver_zeromq.rs and driver_websocket.rs    *)
(* ---------------------------------------------------------------------- *)

\* Payloads are sequences of bytes (0..255); a ZeroMQ payload is a sequence of
\* such frames. JSON texts are kept short: a msg_id is one digit, a message type
\* name one letter, the other header fields are left out.

\* The names of the declared message kinds ('s' for status, 'e' for
\* execute_reply) and every name (the declared ones and 'x', which is none).
KnownTypes == {115, 101}
TypeNames == KnownTypes \cup {120}

\* KernelMessageType: a declared variant, or Other(String).
Known(n) == [other |-> FALSE, name |-> n]
Other(n) == [other |-> TRUE, name |-> n]
MessageTypes == {Known(n) : n \in KnownTypes} \cup {Other(n) : n \in TypeNames}

\* Serialize: the snake_case name of a declared variant, the string of the
\* untagged variant Other as it is; both as a quoted JSON string.
TypeText(t) == <<34, t.name, 34>>

\* Deserialize: the declared variants are tried first, the untagged variant
\* Other takes whatever string is left.
TypeOfName(n) == IF n \in KnownTypes THEN Known(n) ELSE Other(n)

\* KernelHeader; NoHeader is the None of Option<KernelHeader>, BadHeader the
\* failure of serde_json::from_slice.
Header(id, t) == [msg_id |-> id, msg_type |-> t]
NoHeader == Header(0, Known(0))
BadHeader == Header(-1, Known(0))

\* serde_json::to_vec(&msg.header)
HeaderJson(h) == <<123, 48 + h.msg_id>> \o TypeText(h.msg_type) \o <<125>>

\* serde_json::from_slice::<KernelHeader>
ParseHeader(bs) ==
    IF /\ Len(bs) = 6
       /\ bs[1] = 123 /\ bs[2] \in {48 + i : i \in 1..9}
       /\ bs[3] = 34 /\ bs[4] \in TypeNames /\ bs[5] = 34 /\ bs[6] = 125
    THEN Header(bs[2] - 48, TypeOfName(bs[4]))
    ELSE BadHeader

\* The JSON text null.
NullJson == <<110, 117, 108, 108>>

\* serde_json::to_vec(&msg.parent_header): None is serialized as null.
ParentJson(p) == IF p = NoHeader THEN NullJson ELSE HeaderJson(p)

\* serde_json::from_slice::<Option<KernelHeader>>
ParseParent(bs) == IF bs = NullJson THEN NoHeader ELSE ParseHeader(bs)

\* The metadata every outbound message carries: the literal {}.
MetadataJson == <<123, 125>>

\* serde_json::to_vec(&msg.content), the content being a one-digit number.
ValueJson(v) == <<48 + v>>

\* serde_json::from_slice::<serde_json::Value>: a number, or -1 for a text that
\* is not JSON.
ParseValue(bs) ==
    IF Len(bs) = 1 /\ bs[1] \in {48 + i : i \in 0..9} THEN bs[1] - 48 ELSE -1

\* KernelMessage
KernelMessage(h, p, c, bufs) ==
    [header |-> h, parent_header |-> p, content |-> c, buffers |-> bufs]
NoMessage == KernelMessage(NoHeader, NoHeader, 0, <<>>)

\* What a decoder gives: Some(message[, channel]), None, or a panic.
Some(msg, ch) == [res |-> "some", msg |-> msg, channel |-> ch]
None == [res |-> "none", msg |-> NoMessage, channel |-> "none"]
Panic == [res |-> "panic", msg |-> NoMessage, channel |-> "none"]
Pending == [res |-> "pending", msg |-> NoMessage, channel |-> "none"]

RECURSIVE Concat(_)
\* The frames / parts one after the other, as mac.update and extend_from_slice
\* put them.
Concat(parts) == IF parts = <<>> THEN <<>> ELSE Head(parts) \o Concat(Tail(parts))

\* HMAC-SHA256 in lowercase hex, as an ideal keyed hash: distinct (key, data)
\* pairs give distinct digests.
Hmac(key, data) == <<35>> \o key \o <<35>> \o data

\* sign_message: the HMAC of the frames, fed in order.
sign_message(signing_key, frames) == Hmac(signing_key, Concat(frames))

\* The delimiter frame "<IDS|MSG>".
Delim == <<60, 73, 68, 83, 124, 77, 83, 71, 62>>

\* to_zmq_payload: the signature is inserted before the four JSON frames and
\* the buffers, the delimiter before the signature.
to_zmq_payload(msg, signing_key) ==
    LET payload == <<HeaderJson(msg.header), ParentJson(msg.parent_header),
                     MetadataJson, ValueJson(msg.content)>> \o msg.buffers
        signature == sign_message(signing_key, payload)
    IN  <<Delim, signature>> \o payload

\* from_zmq_payload: payload[delim_idx + k] panics when the payload has no such
\* frame, `?` gives None; the signature frame and the metadata frame are not
\* looked at.
from_zmq_payload(payload) ==
    LET D == {i \in 1..Len(payload) : payload[i] = Delim} IN
    IF D = {} THEN None
    ELSE LET delim_idx == CHOOSE i \in D : \A j \in D : i <= j IN
         IF Len(payload) < delim_idx + 2 THEN Panic
         ELSE IF ParseHeader(payload[delim_idx + 2]) = BadHeader THEN None
         ELSE IF Len(payload) < delim_idx + 3 THEN Panic
         ELSE IF ParseParent(payload[delim_idx + 3]) = BadHeader THEN None
         ELSE IF Len(payload) < delim_idx + 5 THEN Panic
         ELSE IF ParseValue(payload[delim_idx + 5]) = -1 THEN None
         ELSE Some(KernelMessage(ParseHeader(payload[delim_idx + 2]),
                                 ParseParent(payload[delim_idx + 3]),
                                 ParseValue(payload[delim_idx + 5]),
                                 SubSeq(payload, delim_idx + 6, Len(payload))),
                   "none")

\* The channel names of the WebSocket protocol and their bytes.
WsChannels == {"shell", "control", "iopub"}
ChannelBytes(ch) ==
    IF ch = "shell" THEN <<115, 104, 101, 108, 108>>
    ELSE IF ch = "control" THEN <<99, 111, 110, 116, 114, 111, 108>>
    ELSE <<105, 111, 112, 117, 98>>

\* String::from_utf8 of the channel bytes: "invalid" when they are not UTF-8
\* (a byte above 127 here), "unexpected" when they spell no channel.
ChannelOf(bs) ==
    IF \E i \in 1..Len(bs) : bs[i] > 127 THEN "invalid"
    ELSE IF \E ch \in WsChannels : ChannelBytes(ch) = bs
         THEN CHOOSE ch \in WsChannels : ChannelBytes(ch) = bs
         ELSE "unexpected"

\* u64::to_le_bytes, for the numbers below 2^24 that occur as offsets.
U64Le(n) == <<n % 256, (n \div 256) % 256, (n \div 65536) % 256, 0, 0, 0, 0, 0>>

\* u64::from_le_bytes of the 8 bytes at (0-based) index: the number itself
\* below 2^24, and 2^24 for every larger one, which exceeds every payload length
\* all the same.
Word(payload, index) ==
    IF \E k \in 4..8 : payload[index + k] # 0 THEN 16777216
    ELSE payload[index + 1] + 256 * payload[index + 2] + 65536 * payload[index + 3]

\* Vec::<usize>::with_capacity(offset_number) panics with "capacity overflow"
\* when 8 * offset_number exceeds isize::MAX, that is from 2^60 on: when the top
\* byte of the count is 16 or more.
CapacityOverflow(payload) == payload[8] >= 16

RECURSIVE Offsets(_, _, _)
\* The offsets pushed by to_ws_payload: where each part starts, the first one
\* at offset_0.
Offsets(parts, i, at) ==
    IF i > Len(parts) THEN <<>>
    ELSE <<at>> \o Offsets(parts, i + 1, at + Len(parts[i]))

\* to_ws_payload: the count, the offsets, then the parts.
to_ws_payload(msg, channel) ==
    LET offset_number == 5 + Len(msg.buffers)
        offset_0 == 8 * (offset_number + 1)
        parts == <<ChannelBytes(channel), HeaderJson(msg.header),
                   ParentJson(msg.parent_header), MetadataJson,
                   ValueJson(msg.content)>> \o msg.buffers
        offsets == <<offset_number>> \o Offsets(parts, 1, offset_0)
    IN  Concat([i \in 1..Len(offsets) |-> U64Le(offsets[i])]) \o Concat(parts)

\* payload.get(a..b) is Some: the range is in order and inside the payload.
InRange(payload, a, b) == a <= b /\ b <= Len(payload)

\* The bytes of payload.get(a..b).
Slice(payload, a, b) == SubSeq(payload, a + 1, b)

\* from_ws_payload: `?` on payload.get gives None, offsets[k] panics when the
\* table has no entry k (offsets holds offset_number + 1 entries, the last one
\* being the payload length).
from_ws_payload(payload) ==
    IF ~InRange(payload, 0, 8) THEN None
    ELSE IF CapacityOverflow(payload) THEN Panic
    ELSE LET offset_number == Word(payload, 0) IN
         IF ~InRange(payload, 0, 8 * (offset_number + 1)) THEN None
         ELSE LET offsets == [i \in 0..offset_number |->
                                 IF i < offset_number THEN Word(payload, 8 * (i + 1))
                                 ELSE Len(payload)]
                  part(i) == Slice(payload, offsets[i], offsets[i + 1])
                  ok(i) == InRange(payload, offsets[i], offsets[i + 1])
              IN  IF offset_number < 1 THEN Panic
                  ELSE IF ~ok(0) \/ ChannelOf(part(0)) = "invalid" THEN None
                  ELSE IF offset_number < 2 THEN Panic
                  ELSE IF ~ok(1) \/ ParseHeader(part(1)) = BadHeader THEN None
                  ELSE IF offset_number < 3 THEN Panic
                  ELSE IF ~ok(2) \/ ParseParent(part(2)) = BadHeader THEN None
                  ELSE IF offset_number < 5 THEN Panic
                  ELSE IF ~ok(4) \/ ParseValue(part(4)) = -1 THEN None
                  ELSE IF \E i \in 5..(offset_number - 1) : ~ok(i) THEN None
                  ELSE Some(KernelMessage(ParseHeader(part(1)), ParseParent(part(2)),
                                          ParseValue(part(4)),
                                          [i \in 1..(offset_number - 5) |-> part(i + 4)]),
                            ChannelOf(part(0)))

\* The messages that are converted: every message type, with and without
\* parent header, with up to MaxBuffers buffers of different lengths.
CodecBuffers ==
    UNION {[1..n -> {<<>>, <<7>>, <<7, 9>>}] : n \in 0..MaxBuffers}
CodecMessages ==
    {KernelMessage(Header(1, t), p, c, bufs) :
        t \in MessageTypes,
        p \in {NoHeader} \cup {Header(m, Known(101)) : m \in MsgIds},
        c \in 0..1,
        bufs \in CodecBuffers}

\* The signing keys.
Keys == {<<107>>, <<75>>}

\* A message to convert by the codec of the given driver.
Input(d, msg, key, ch) == [codec |-> d, msg |-> msg, key |-> key, channel |-> ch]
CodecInputs ==
    {Input("zmq", msg, key, "none") : msg \in CodecMessages, key \in Keys}
    \cup {Input("ws", msg, <<>>, ch) : msg \in CodecMessages, ch \in WsChannels}

\* No conversion is under way.
NoInput == [codec |-> "none", msg |-> NoMessage, key |-> <<>>, channel |-> "none"]

\* Nothing has gone through the queues yet. enq and wire are the messages pushed
\* onto each send queue and handed to the transport, pub and ret the IOPub
\* messages the driver decoded and the readers were given, by the clone each of
\* these was given to (where the clones are told apart), inbound the last payload
\* a receive loop took from the transport, with its channel.
NoHist ==
    [enq |-> [ch \in Chans |-> <<>>], wire |-> [ch \in Chans |-> <<>>],
     pub |-> <<>>, ret |-> <<>>, by |-> <<>>, inbound |-> <<>>, inch |-> "none"]

Queue(ch) == IF ch = "shell" THEN shell_q ELSE control_q
Cap(ch) == IF ch = "shell" THEN ShellCap ELSE ControlCap

\* The future that owns the receiving end of a send queue.
RxOwner(ch) == IF driver = "zmq" THEN ch ELSE "send"

\* Faulty variant of SendClosed: close() cancels the signal but leaves the send queues
\* open.
SendClosedNotByClose(ch) ==
    \/ clones = 0
    \/ task = "exited"
    \/ fut[RxOwner(ch)].pc = "done"

\* A send queue is closed when close() closed it, when every Sender is gone (no
\* clone of the connection is left) or when its Receiver is gone (the loop that
\* owns it has finished or the driver task has exited).
SendClosed(ch) ==
    \/ closed
    \/ clones = 0
    \/ task = "exited"
    \/ fut[RxOwner(ch)].pc = "done"

\* The future that owns iopub_tx.
IopubOwner == IF driver = "zmq" THEN "iopub" ELSE "receive"

IopubClosed ==
    \/ closed
    \/ clones = 0
    \/ task = "exited"
    \/ fut[IopubOwner].pc = "done"

\* Whether the one-shot receiver of call c is still alive: inside the call future
\* while it is sending, inside the PendingRequest afterwards.
ReceiverAlive(c) == pc[c] \in {"sending", "pending", "awaiting", "replied", "disconnected"}

\* Whether the PendingRequest of call c exists.
PendingAlive(c) == pc[c] \in {"pending", "awaiting", "replied", "disconnected"}

\* The run_cell reader tasks that are running; each owns a clone of the connection.
Readers == {r \in Runs : rc[r].pc \in {"reading", "exiting"}}

\* The clones held by callers (all clones but those of the reader tasks).
CallerClones == clones - Cardinality(Readers)

\* Dropping the Sender of call o without a value: the receiver observes RecvError.
SenderDropped(os, o) ==
    IF o # 0 /\ os[o].st = "empty"
    THEN [os EXCEPT ![o].st = "closed"]
    ELSE os

(* ---------------------------------------------------------------------- *)
(* Initial state: a freshly built connection                               *)
(* ---------------------------------------------------------------------- *)

InitFut(d) ==
    [f \in Futs |->
        IF d = "zmq"
        THEN (IF f \in {"shell", "control"} THEN FutIdle("select")
              ELSE IF f = "iopub" THEN FutIdle("recv") ELSE FutIdle("absent"))
        ELSE (IF f = "send" THEN FutIdle("select")
              ELSE IF f = "receive" THEN FutIdle("recv") ELSE FutIdle("absent"))]

InitConn ==
    /\ driver \in Drivers
    /\ pc = [c \in Slots |-> "idle"]
    /\ req = [c \in Slots |-> NoReq]
    /\ reply_tx_map = [m \in MsgIds |-> 0]
    /\ oneshot = [c \in Slots |-> OneshotNew]
    /\ shell_q = <<>>
    /\ control_q = <<>>
    /\ iopub_q = <<>>
    /\ hand = NoIopub
    /\ closed = FALSE
    /\ signal = FALSE
    /\ clones = 1
    /\ fut = InitFut(driver)
    /\ task = "running"
    /\ sock_ok = TRUE
    /\ inserted = {}
    /\ ndeliv = [c \in Slots |-> 0]
    /\ at_close = {}
    /\ at_exit = [f \in Futs |-> "running"]

\* The state after create_zeromq_connection / create_websocket_connection has
\* returned: no call, no run_cell, no conversion yet.
Init ==
    /\ InitConn
    /\ rc = [r \in 1..MaxRun |-> NoRun]
    /\ cin = NoInput
    /\ cwire = <<>>
    /\ cout = Pending
    /\ hist = NoHist
    /\ body = [c \in Slots |-> NoContent]
    /\ lk = NoLaunch
    /\ ks = NoListing

(* ---------------------------------------------------------------------- *)
(* KernelConnection::call_shell / call_control                             *)
(* ---------------------------------------------------------------------- *)

\* Faulty variant of MapInsert: the Sender is never put into the map.
MapInsertNone(map, m, c) == map

\* reply_tx_map.insert(msg_id, reply_tx): a previous entry under the same key is
\* replaced and its Sender dropped.
MapInsert(map, m, c) == [map EXCEPT ![m] = c]

\* First half of call_shell/call_control: create the one-shot channel and insert
\* its Sender under the message's msg_id. Tracked calls are numbered in the order
\* in which they start.
CallInsert(c, m, ch) ==
    /\ CallerClones > 0
    /\ pc[c] = "idle"
    /\ \A b \in Slots : b < c => pc[b] # "idle"
    /\ reply_tx_map' = MapInsert(reply_tx_map, m, c)
    /\ oneshot' = [SenderDropped(oneshot, reply_tx_map[m]) EXCEPT ![c] = OneshotNew]
    /\ req' = [req EXCEPT ![c] = [id |-> m, chan |-> ch]]
    /\ pc' = [pc EXCEPT ![c] = "sending"]
    /\ inserted' = inserted \cup {b \in {c} : reply_tx_map'[m] = b}
    /\ UNCHANGED <<driver, shell_q, control_q, iopub_q, hand, closed, signal, clones,
                   fut, task, sock_ok, ndeliv, at_close, at_exit>>

\* KernelMessage::new: the msg_id of a new message is a fresh UUID (Uuid::new_v4),
\* here the number of the call that builds it.
NewMsgId(c) == c

call_shell(c, m) == CallInsert(c, m, "shell")

call_control(c, m) == CallInsert(c, m, "control")

\* Outcome of the queue push of call c: "failed" when the queue is closed
\* (Error::KernelDisconnect), "pending" when the message was queued and the
\* PendingRequest returned.
SendOutcome(c) == IF SendClosed(req[c].chan) THEN "failed" ELSE "pending"

\* Faulty variant of CallSend: the push does not wait for room in the queue.
CallSendUnbounded(c) ==
    /\ pc[c] = "sending"
    /\ LET ch == req[c].chan
           out == SendOutcome(c) IN
        /\ pc' = [pc EXCEPT ![c] = out]
        /\ shell_q' = IF out = "pending" /\ ch = "shell"
                      THEN Append(shell_q, Msg(req[c].id, c)) ELSE shell_q
        /\ control_q' = IF out = "pending" /\ ch = "control"
                        THEN Append(control_q, Msg(req[c].id, c)) ELSE control_q
    /\ UNCHANGED <<driver, req, reply_tx_map, oneshot, iopub_q, hand, closed, signal,
                   clones, fut, task, sock_ok, inserted, ndeliv, at_close, at_exit>>

\* Second half: shell_tx.send(message).await. On a closed queue the call returns
\* KernelDisconnect and the one-shot Receiver is dropped with the call; on a full
\* queue the call stays suspended (the action is not enabled).
CallSend(c) ==
    /\ pc[c] = "sending"
    /\ LET ch == req[c].chan
           out == SendOutcome(c) IN
        /\ out = "pending" => Len(Queue(ch)) < Cap(ch)
        /\ pc' = [pc EXCEPT ![c] = out]
        /\ shell_q' = IF out = "pending" /\ ch = "shell"
                      THEN Append(shell_q, Msg(req[c].id, c)) ELSE shell_q
        /\ control_q' = IF out = "pending" /\ ch = "control"
                        THEN Append(control_q, Msg(req[c].id, c)) ELSE control_q
    /\ UNCHANGED <<driver, req, reply_tx_map, oneshot, iopub_q, hand, closed, signal,
                   clones, fut, task, sock_ok, inserted, ndeliv, at_close, at_exit>>

\* A call that cannot push because its send queue is full.
Suspended(c) == pc[c] = "sending" /\ Len(Queue(req[c].chan)) = Cap(req[c].chan)

\* The caller drops the call future while it is suspended on the queue push (the
\* only await of the call): the one-shot Receiver goes with it and no
\* PendingRequest was ever built.
CallAbandon(c) ==
    /\ Suspended(c)
    /\ pc' = [pc EXCEPT ![c] = "abandoned"]
    /\ UNCHANGED <<driver, req, reply_tx_map, oneshot, shell_q, control_q, iopub_q, hand,
                   closed, signal, clones, fut, task, sock_ok, inserted, ndeliv, at_close, at_exit>>

\* A complete call by an untracked caller whose PendingRequest is dropped as soon
\* as the call returns (run_cell does this with its execute_request): the entry is
\* inserted and removed again, and the message stays in the send queue. Such
\* traffic only occupies queue capacity; it comes before the tracked calls and
\* on one channel at a time.
UntrackedCall(ch) ==
    /\ CallerClones > 0
    /\ \A c \in Slots : pc[c] = "idle"
    /\ \A o \in Chans \ {ch} : Queue(o) = <<>>
    /\ ~SendClosed(ch)
    /\ Len(Queue(ch)) < Cap(ch)
    /\ shell_q' = IF ch = "shell" THEN Append(shell_q, Untracked) ELSE shell_q
    /\ control_q' = IF ch = "control" THEN Append(control_q, Untracked) ELSE control_q
    /\ UNCHANGED <<driver, pc, req, reply_tx_map, oneshot, iopub_q, hand, closed, signal,
                   clones, fut, task, sock_ok, inserted, ndeliv, at_close, at_exit>>

(* ---------------------------------------------------------------------- *)
(* PendingRequest                                                          *)
(* ---------------------------------------------------------------------- *)

\* get_reply is polled for the first time.
get_reply(c) ==
    /\ pc[c] = "pending"
    /\ pc' = [pc EXCEPT ![c] = "awaiting"]
    /\ UNCHANGED <<driver, req, reply_tx_map, oneshot, shell_q, control_q, iopub_q, hand,
                   closed, signal, clones, fut, task, sock_ok, inserted, ndeliv, at_close, at_exit>>

\* What (&mut self.reply_rx).await resolves to.
ReplyOutcome(c) == IF oneshot[c].st = "value" THEN "replied" ELSE "disconnected"

\* get_reply returns: the reply when a value was sent, KernelDisconnect when the
\* Sender was dropped. It stays suspended while the Sender is alive and unused.
GetReplyReturn(c) ==
    /\ pc[c] = "awaiting"
    /\ oneshot[c].st # "empty"
    /\ pc' = [pc EXCEPT ![c] = ReplyOutcome(c)]
    /\ UNCHANGED <<driver, req, reply_tx_map, oneshot, shell_q, control_q, iopub_q, hand,
                   closed, signal, clones, fut, task, sock_ok, inserted, ndeliv, at_close, at_exit>>

\* Faulty variant of MapRemove: the whole map is cleared.
MapRemoveAll(map, m) == [k \in MsgIds |-> 0]

\* reply_tx_map.remove(&self.msg_id)
MapRemove(map, m) == [map EXCEPT ![m] = 0]

\* A PendingRequest that is gone: dropped before get_reply was ever polled
\* ("dropped_early") or after.
Dropped == {"dropped_early", "dropped"}

\* impl Drop for PendingRequest: remove whatever entry sits under this msg_id.
drop(c) ==
    /\ PendingAlive(c)
    /\ reply_tx_map' = MapRemove(reply_tx_map, req[c].id)
    /\ oneshot' = SenderDropped(oneshot, reply_tx_map[req[c].id])
    /\ pc' = [pc EXCEPT ![c] = IF pc[c] = "pending" THEN "dropped_early" ELSE "dropped"]
    /\ UNCHANGED <<driver, req, shell_q, control_q, iopub_q, hand, closed, signal, clones,
                   fut, task, sock_ok, inserted, ndeliv, at_close, at_exit>>

(* ---------------------------------------------------------------------- *)
(* close(), Clone and Drop of the KernelConnection                         *)
(* ---------------------------------------------------------------------- *)

\* KernelConnection::close: close the three queues and cancel the signal.
close ==
    /\ CallerClones > 0
    /\ ~closed
    /\ closed' = TRUE
    /\ signal' = TRUE
    /\ at_close' = {c \in Slots : Suspended(c)}
    /\ UNCHANGED <<driver, pc, req, reply_tx_map, oneshot, shell_q, control_q, iopub_q, hand,
                   clones, fut, task, sock_ok, inserted, ndeliv, at_exit>>

\* #[derive(Clone)]
CloneConnection ==
    /\ CallerClones > 0
    /\ clones < MaxClones
    /\ clones' = clones + 1
    /\ UNCHANGED <<driver, pc, req, reply_tx_map, oneshot, shell_q, control_q, iopub_q, hand,
                   closed, signal, fut, task, sock_ok, inserted, ndeliv, at_close, at_exit>>

\* A call_shell/call_control or a run_cell in progress borrows a clone.
Borrowed ==
    \/ \E c \in Slots : pc[c] = "sending"
    \/ \E r \in Runs : rc[r].pc \in {"drain", "call", "sending", "returned", "spawn"}

\* Faulty variant of DropConnection: every clone owns a DropGuard of its own, so
\* the first clone to go cancels the signal.
DropConnectionOwnGuard ==
    /\ CallerClones > 0
    /\ CallerClones = 1 => ~Borrowed
    /\ clones' = clones - 1
    /\ signal' = TRUE
    /\ UNCHANGED <<driver, pc, req, reply_tx_map, oneshot, shell_q, control_q, iopub_q, hand,
                   closed, fut, task, sock_ok, inserted, ndeliv, at_close, at_exit>>

\* A clone is dropped; the DropGuard inside the shared Arc cancels the signal when
\* the last one goes.
DropConnection ==
    /\ CallerClones > 0
    /\ CallerClones = 1 => ~Borrowed
    /\ clones' = clones - 1
    /\ signal' = (signal \/ clones = 1)
    /\ UNCHANGED <<driver, pc, req, reply_tx_map, oneshot, shell_q, control_q, iopub_q, hand,
                   closed, fut, task, sock_ok, inserted, ndeliv, at_close, at_exit>>

(* ---------------------------------------------------------------------- *)
(* Routing of an inbound shell/control reply (both drivers)                *)
(* ---------------------------------------------------------------------- *)

\* An inbound shell/control payload that is not routed: it does not decode
\* (from_zmq_payload / from_ws_payload yields None) or has no parent header.
Unroutable == {"malformed", "noparent"}

\* Faulty variant of Waiter: the reply goes to whichever waiter is registered, whatever
\* its msg_id.
WaiterAny(m) ==
    LET S == {k \in MsgIds : reply_tx_map[k] # 0} IN
    IF S = {} THEN 0 ELSE reply_tx_map[CHOOSE k \in S : TRUE]

\* tx_map.remove(msg_id): the call whose Sender sits under msg_id m (0 = none).
Waiter(m) == reply_tx_map[m]

\* reply_tx.send(msg): the value reaches the Receiver if it is still alive, and
\* is discarded otherwise.
Deliver(os, o, m, ch) ==
    IF ReceiverAlive(o)
    THEN [os EXCEPT ![o] = [st |-> "value", parent |-> m, chan |-> ch]]
    ELSE os

\* Faulty variant of RouteReply: the Sender is used through the map and its entry
\* stays.
RouteReplyKeepsEntry(m, ch) ==
    LET o == Waiter(m) IN
    /\ reply_tx_map' = reply_tx_map
    /\ oneshot' = IF o # 0 THEN Deliver(oneshot, o, m, ch) ELSE oneshot
    /\ ndeliv' = IF o # 0 /\ ReceiverAlive(o) /\ ndeliv[o] < 2
                 THEN [ndeliv EXCEPT ![o] = @ + 1] ELSE ndeliv

\* The entry under the reply's parent msg_id, if any, is removed and its Sender
\* is used once.
RouteReply(m, ch) ==
    LET o == Waiter(m) IN
    /\ reply_tx_map' = IF o # 0 THEN MapRemove(reply_tx_map, m) ELSE reply_tx_map
    /\ oneshot' = IF o # 0 THEN Deliver(oneshot, o, m, ch) ELSE oneshot
    /\ ndeliv' = IF o # 0 /\ ReceiverAlive(o) /\ ndeliv[o] < 2
                 THEN [ndeliv EXCEPT ![o] = @ + 1] ELSE ndeliv

\* A payload that is dropped: undecodable, or without parent header.
RouteNothing == UNCHANGED <<reply_tx_map, oneshot, ndeliv>>

(* ---------------------------------------------------------------------- *)
(* ZeroMQ driver: shell_fut and control_fut                                *)
(* ---------------------------------------------------------------------- *)

Pop(ch) ==
    /\ shell_q' = IF ch = "shell" THEN Tail(shell_q) ELSE shell_q
    /\ control_q' = IF ch = "control" THEN Tail(control_q) ELSE control_q

\* Faulty variant of ZmqTake: the loop takes the newest queued message.
ZmqTakeNewest(ch) ==
    /\ driver = "zmq" /\ task = "running"
    /\ fut[ch].pc = "select"
    /\ Queue(ch) # <<>>
    /\ fut' = [fut EXCEPT ![ch] = [pc |-> "sending",
                                   msg |-> Queue(ch)[Len(Queue(ch))], ch |-> ch]]
    /\ shell_q' = IF ch = "shell" THEN SubSeq(shell_q, 1, Len(shell_q) - 1) ELSE shell_q
    /\ control_q' = IF ch = "control"
                    THEN SubSeq(control_q, 1, Len(control_q) - 1) ELSE control_q
    /\ UNCHANGED <<driver, pc, req, reply_tx_map, oneshot, iopub_q, hand, closed, signal,
                   clones, task, sock_ok, inserted, ndeliv, at_close, at_exit>>

\* select! branch Ok(msg) = shell_rx.recv(): take the next queued message and
\* start shell.send(payload).
ZmqTake(ch) ==
    /\ driver = "zmq" /\ task = "running"
    /\ fut[ch].pc = "select"
    /\ Queue(ch) # <<>>
    /\ fut' = [fut EXCEPT ![ch] = [pc |-> "sending", msg |-> Head(Queue(ch)), ch |-> ch]]
    /\ Pop(ch)
    /\ UNCHANGED <<driver, pc, req, reply_tx_map, oneshot, iopub_q, hand, closed, signal,
                   clones, task, sock_ok, inserted, ndeliv, at_close, at_exit>>

\* shell.send(payload).await completes: the message is on the wire, or the send
\* failed and is only logged; either way the loop goes on.
ZmqSent(ch) ==
    /\ driver = "zmq" /\ task = "running"
    /\ fut[ch].pc = "sending"
    /\ fut' = [fut EXCEPT ![ch] = FutIdle("select")]
    /\ UNCHANGED <<driver, pc, req, reply_tx_map, oneshot, shell_q, control_q, iopub_q, hand,
                   closed, signal, clones, task, sock_ok, inserted, ndeliv, at_close, at_exit>>

\* select! branch Ok(payload) = shell.recv(): a payload that decodes to a message
\* whose parent_header.msg_id is m.
ZmqReply(ch, m) ==
    /\ driver = "zmq" /\ task = "running"
    /\ fut[ch].pc = "select"
    /\ sock_ok
    /\ RouteReply(m, ch)
    /\ UNCHANGED <<driver, pc, req, shell_q, control_q, iopub_q, hand, closed, signal,
                   clones, fut, task, sock_ok, inserted, at_close, at_exit>>

\* The same branch with a payload that is dropped.
ZmqUnroutable(ch, kind) ==
    /\ driver = "zmq" /\ task = "running"
    /\ fut[ch].pc = "select"
    /\ sock_ok
    /\ kind \in Unroutable
    /\ RouteNothing
    /\ UNCHANGED <<driver, pc, req, shell_q, control_q, iopub_q, hand, closed, signal,
                   clones, fut, task, sock_ok, inserted, at_close, at_exit>>

\* else => break: both branches are disabled, the queue being closed and drained
\* and the socket failing.
ZmqBreak(ch) ==
    /\ driver = "zmq" /\ task = "running"
    /\ fut[ch].pc = "select"
    /\ Queue(ch) = <<>> /\ (closed \/ clones = 0)
    /\ ~sock_ok
    /\ fut' = [fut EXCEPT ![ch] = FutIdle("done")]
    /\ UNCHANGED <<driver, pc, req, reply_tx_map, oneshot, shell_q, control_q, iopub_q, hand,
                   closed, signal, clones, task, sock_ok, inserted, ndeliv, at_close, at_exit>>

(* ---------------------------------------------------------------------- *)
(* WebSocket driver: send_fut and the reply routing of receive_fut         *)
(* ---------------------------------------------------------------------- *)

\* select! over shell_rx.recv() and control_rx.recv(): take a queued message of
\* either channel and start ws_tx.send.
WsTake(ch) ==
    /\ driver = "ws" /\ task = "running"
    /\ fut["send"].pc = "select"
    /\ Queue(ch) # <<>>
    /\ fut' = [fut EXCEPT !["send"] = [pc |-> "sending", msg |-> Head(Queue(ch)), ch |-> ch]]
    /\ Pop(ch)
    /\ UNCHANGED <<driver, pc, req, reply_tx_map, oneshot, iopub_q, hand, closed, signal,
                   clones, task, sock_ok, inserted, ndeliv, at_close, at_exit>>

\* ws_tx.send(..).await completes: on success the loop goes on, on failure the
\* loop breaks (no reconnection).
WsSent ==
    /\ driver = "ws" /\ task = "running"
    /\ fut["send"].pc = "sending"
    /\ fut' = [fut EXCEPT !["send"] = FutIdle(IF sock_ok THEN "select" ELSE "done")]
    /\ UNCHANGED <<driver, pc, req, reply_tx_map, oneshot, shell_q, control_q, iopub_q, hand,
                   closed, signal, clones, task, sock_ok, inserted, ndeliv, at_close, at_exit>>

\* else => break: both send queues are closed and drained.
WsSendBreak ==
    /\ driver = "ws" /\ task = "running"
    /\ fut["send"].pc = "select"
    /\ shell_q = <<>> /\ control_q = <<>> /\ (closed \/ clones = 0)
    /\ fut' = [fut EXCEPT !["send"] = FutIdle("done")]
    /\ UNCHANGED <<driver, pc, req, reply_tx_map, oneshot, shell_q, control_q, iopub_q, hand,
                   closed, signal, clones, task, sock_ok, inserted, ndeliv, at_close, at_exit>>

\* receive_fut gets a binary frame for channel "shell" or "control" that decodes
\* to a message whose parent_header.msg_id is m.
WsReply(ch, m) ==
    /\ driver = "ws" /\ task = "running"
    /\ fut["receive"].pc = "recv"
    /\ sock_ok
    /\ RouteReply(m, ch)
    /\ UNCHANGED <<driver, pc, req, shell_q, control_q, iopub_q, hand, closed, signal,
                   clones, fut, task, sock_ok, inserted, at_close, at_exit>>

\* receive_fut gets a frame that is skipped: not binary, undecodable, or a
\* shell/control message without parent header.
WsUnroutable(kind) ==
    /\ driver = "ws" /\ task = "running"
    /\ fut["receive"].pc = "recv"
    /\ sock_ok
    /\ kind \in Unroutable
    /\ RouteNothing
    /\ UNCHANGED <<driver, pc, req, shell_q, control_q, iopub_q, hand, closed, signal,
                   clones, fut, task, sock_ok, inserted, at_close, at_exit>>

(* ---------------------------------------------------------------------- *)
(* The transport and the spawned driver task                               *)
(* ---------------------------------------------------------------------- *)

\* The sockets / the WebSocket start failing (kernel gone, network error).
TransportFail ==
    /\ sock_ok
    /\ sock_ok' = FALSE
    /\ UNCHANGED <<driver, pc, req, reply_tx_map, oneshot, shell_q, control_q, iopub_q, hand,
                   closed, signal, clones, fut, task, inserted, ndeliv, at_close, at_exit>>

ExitedFut == [f \in Futs |-> FutIdle(IF fut[f].pc = "absent" THEN "absent" ELSE "done")]

\* Faulty variant of TaskCancelled: the task only joins its loops; a cancelled signal
\* ends it once every loop has finished by itself.
TaskCancelledOnceJoined ==
    /\ task = "running"
    /\ signal
    /\ \A f \in Futs : fut[f].pc \in {"absent", "done"}
    /\ task' = "exited"
    /\ hand' = NoIopub
    /\ at_exit' = [f \in Futs |-> fut[f].pc]
    /\ UNCHANGED <<driver, pc, req, reply_tx_map, oneshot, shell_q, control_q, iopub_q,
                   closed, signal, clones, fut, sock_ok, inserted, ndeliv, at_close>>

\* select! branch signal.cancelled(): the task ends and every loop is dropped
\* wherever it is suspended.
TaskCancelled ==
    /\ task = "running"
    /\ signal
    /\ task' = "exited"
    /\ fut' = ExitedFut
    /\ hand' = NoIopub
    /\ at_exit' = [f \in Futs |-> fut[f].pc]
    /\ UNCHANGED <<driver, pc, req, reply_tx_map, oneshot, shell_q, control_q, iopub_q,
                   closed, signal, clones, sock_ok, inserted, ndeliv, at_close>>

\* select! branch tokio::join!(..): every loop has finished.
TaskJoined ==
    /\ task = "running"
    /\ \A f \in Futs : fut[f].pc \in {"absent", "done"}
    /\ task' = "exited"
    /\ at_exit' = [f \in Futs |-> fut[f].pc]
    /\ UNCHANGED <<driver, pc, req, reply_tx_map, oneshot, shell_q, control_q, iopub_q, hand,
                   closed, signal, clones, fut, sock_ok, inserted, ndeliv, at_close>>

(* ---------------------------------------------------------------------- *)
(* IOPub loops ending on a transport failure                               *)
(* ---------------------------------------------------------------------- *)

\* while let Ok(payload) = iopub.recv().await / while let Some(Ok(..)) =
\* ws_rx.next().await: the loop ends when the transport fails.
IopubLoopEnd ==
    /\ task = "running"
    /\ fut[IopubOwner].pc = "recv"
    /\ ~sock_ok
    /\ fut' = [fut EXCEPT ![IopubOwner] = FutIdle("done")]
    /\ UNCHANGED <<driver, pc, req, reply_tx_map, oneshot, shell_q, control_q, iopub_q, hand,
                   closed, signal, clones, task, sock_ok, inserted, ndeliv, at_close, at_exit>>

(* ---------------------------------------------------------------------- *)
(* IOPub: iopub_fut (ZeroMQ) and the "iopub" branch of receive_fut         *)
(* (WebSocket)                                                             *)
(* ---------------------------------------------------------------------- *)

\* Faulty variant of IopubRecv: the message is put in front of the queued ones.
IopubRecvFront(msg) ==
    /\ task = "running"
    /\ fut[IopubOwner].pc = "recv"
    /\ sock_ok
    /\ IF IopubClosed
       THEN UNCHANGED <<iopub_q, hand, fut>>
       ELSE IF Len(iopub_q) < IopubCap
            THEN iopub_q' = <<msg>> \o iopub_q /\ UNCHANGED <<hand, fut>>
            ELSE /\ fut' = [fut EXCEPT ![IopubOwner].pc = "pushing"]
                 /\ hand' = msg
                 /\ UNCHANGED iopub_q
    /\ UNCHANGED <<driver, pc, req, reply_tx_map, oneshot, shell_q, control_q, closed,
                   signal, clones, task, sock_ok, inserted, ndeliv, at_close, at_exit>>

\* The loop receives a payload that decodes to the IOPub message msg and runs
\* iopub_tx.send(msg).await: into the queue if there is room; discarded if the
\* queue is closed (the error is ignored); otherwise the loop suspends with the
\* message in hand.
IopubRecv(msg) ==
    /\ task = "running"
    /\ fut[IopubOwner].pc = "recv"
    /\ sock_ok
    /\ IF IopubClosed
       THEN UNCHANGED <<iopub_q, hand, fut>>
       ELSE IF Len(iopub_q) < IopubCap
            THEN iopub_q' = Append(iopub_q, msg) /\ UNCHANGED <<hand, fut>>
            ELSE /\ fut' = [fut EXCEPT ![IopubOwner].pc = "pushing"]
                 /\ hand' = msg
                 /\ UNCHANGED iopub_q
    /\ UNCHANGED <<driver, pc, req, reply_tx_map, oneshot, shell_q, control_q, closed,
                   signal, clones, task, sock_ok, inserted, ndeliv, at_close, at_exit>>

\* The suspended iopub_tx.send(msg).await completes: a reader made room, or the
\* queue was closed and the message is discarded.
IopubSendResume ==
    /\ task = "running"
    /\ fut[IopubOwner].pc = "pushing"
    /\ IopubClosed \/ Len(iopub_q) < IopubCap
    /\ iopub_q' = IF IopubClosed THEN iopub_q ELSE Append(iopub_q, hand)
    /\ hand' = NoIopub
    /\ fut' = [fut EXCEPT ![IopubOwner].pc = "recv"]
    /\ UNCHANGED <<driver, pc, req, reply_tx_map, oneshot, shell_q, control_q, closed,
                   signal, clones, task, sock_ok, inserted, ndeliv, at_close, at_exit>>

(* ---------------------------------------------------------------------- *)
(* KernelConnection::recv_iopub / try_recv_iopub                           *)
(* ---------------------------------------------------------------------- *)

\* Faulty variant of recv_iopub: every clone has a receiver of its own that sees
\* every message, so returning a message leaves it there for the other clones.
recv_iopub_broadcast ==
    /\ iopub_q # <<>>
    /\ UNCHANGED connVars

\* What iopub_rx.recv().await does: a queued message is returned even when the
\* queue has been closed; KernelDisconnect only when it is closed and empty.
RecvIopub ==
    IF iopub_q # <<>> THEN "message"
    ELSE IF IopubClosed THEN "disconnect" ELSE "blocked"

\* recv_iopub returns.
recv_iopub ==
    /\ RecvIopub # "blocked"
    /\ iopub_q' = IF RecvIopub = "message" THEN Tail(iopub_q) ELSE iopub_q
    /\ UNCHANGED <<driver, pc, req, reply_tx_map, oneshot, shell_q, control_q, hand,
                   closed, signal, clones, fut, task, sock_ok, inserted, ndeliv, at_close,
                   at_exit>>

\* Faulty variant of iopub_try_recv: a closed queue gives up its messages.
iopub_try_recv_closed_first ==
    IF IopubClosed THEN "Closed" ELSE IF iopub_q # <<>> THEN "Ok" ELSE "Empty"

\* What self.iopub_rx.try_recv() gives: the oldest queued message, also from a
\* closed queue; TryRecvError::Closed or TryRecvError::Empty when there is none.
iopub_try_recv ==
    IF iopub_q # <<>> THEN "Ok" ELSE IF IopubClosed THEN "Closed" ELSE "Empty"

\* .ok(): Some(message) for Ok, None for either error.
TryRecvIopub == IF iopub_try_recv = "Ok" THEN "message" ELSE "absent"

\* try_recv_iopub returns a message (it returns None when the queue is empty and
\* changes nothing).
try_recv_iopub ==
    /\ CallerClones > 0
    /\ TryRecvIopub = "message"
    /\ iopub_q' = Tail(iopub_q)
    /\ UNCHANGED <<driver, pc, req, reply_tx_map, oneshot, shell_q, control_q, hand,
                   closed, signal, clones, fut, task, sock_ok, inserted, ndeliv, at_close,
                   at_exit>>

(* ---------------------------------------------------------------------- *)
(* The receive branches of the driver loops, payload by payload            *)
(* ---------------------------------------------------------------------- *)

\* The signing key the connection was created with.
SigningKey == <<107>>

\* A reply of the kernel to the request with msg_id m.
ReplyMsg(m) == KernelMessage(Header(9, Known(101)), Header(m, Known(101)), 0, <<>>)

\* A status message the kernel publishes on IOPub.
StatusMsg == KernelMessage(Header(9, Known(115)), NoHeader, 0, <<>>)

\* payload with frame / bytes number i (1-based) replaced.
Replace(payload, i, x) == [payload EXCEPT ![i] = x]

\* The multipart messages that arrive on a ZeroMQ socket: replies signed with
\* the connection's key, a published status, a reply signed with another key,
\* replies cut after the delimiter and after the parent header, a reply without
\* its delimiter, and a reply whose header is not JSON.
ZmqInbox ==
    {to_zmq_payload(ReplyMsg(m), SigningKey) : m \in MsgIds}
    \cup {to_zmq_payload(StatusMsg, SigningKey)}
    \cup {to_zmq_payload(ReplyMsg(1), <<75>>)}
    \cup {SubSeq(to_zmq_payload(ReplyMsg(1), SigningKey), 1, n) : n \in {1, 4}}
    \cup {Tail(to_zmq_payload(ReplyMsg(1), SigningKey))}
    \cup {Replace(to_zmq_payload(ReplyMsg(1), SigningKey), 3, <<123>>)}

\* The binary frames that arrive on the WebSocket: replies and a published
\* status, 7 bytes, a count of zero, a count of 2^64 - 1, a table of two
\* offsets, a count beyond the payload, an offset below the one before it, and
\* an offset beyond the payload.
WsInbox ==
    LET good == to_ws_payload(ReplyMsg(1), "shell") IN
    {to_ws_payload(ReplyMsg(m), "shell") : m \in MsgIds}
    \cup {to_ws_payload(StatusMsg, "iopub")}
    \cup {SubSeq(good, 1, 7)}
    \cup {U64Le(0)}
    \cup {<<255, 255, 255, 255, 255, 255, 255, 255>>}
    \cup {U64Le(2) \o U64Le(24) \o U64Le(29) \o ChannelBytes("shell")
             \o HeaderJson(Header(9, Known(101)))}
    \cup {Replace(good, 1, 200)}
    \cup {Replace(good, 17, 0)}
    \cup {Replace(good, 18, 1)}

\* The IOPub message run_cell sees in a decoded message: its kind by the
\* message type, its execution_state by the content.
AsIopub(msg) ==
    IF msg.header.msg_type = Known(115)
    THEN IopubMsg("status", TRUE, IF msg.content = 1 THEN "idle" ELSE "busy",
                  msg.parent_header.msg_id)
    ELSE IopubMsg("other", TRUE, "none", msg.parent_header.msg_id)

\* A loop panics while the task polls it: the task unwinds and is over, every
\* loop is dropped with it; the signal is not cancelled.
TaskPanicked ==
    /\ task = "running"
    /\ task' = "exited"
    /\ fut' = ExitedFut
    /\ hand' = NoIopub
    /\ at_exit' = [f \in Futs |-> fut[f].pc]
    /\ UNCHANGED <<driver, pc, req, reply_tx_map, oneshot, shell_q, control_q, iopub_q,
                   closed, signal, clones, sock_ok, inserted, ndeliv, at_close>>

\* A payload is skipped by an IOPub loop.
IopubSkip ==
    /\ task = "running"
    /\ fut[IopubOwner].pc = "recv"
    /\ sock_ok
    /\ UNCHANGED connVars

\* select! branch Ok(payload) = shell.recv() / control.recv() on the payload:
\* from_zmq_payload, then the routing by the parent header.
ZmqInbound(ch, payload) ==
    LET r == from_zmq_payload(payload) IN
    /\ driver = "zmq" /\ task = "running"
    /\ fut[ch].pc = "select"
    /\ sock_ok
    /\ IF r = Panic THEN TaskPanicked
       ELSE IF r = None THEN ZmqUnroutable(ch, "malformed")
       ELSE IF r.msg.parent_header = NoHeader THEN ZmqUnroutable(ch, "noparent")
       ELSE ZmqReply(ch, r.msg.parent_header.msg_id)

\* iopub_fut on the payload: from_zmq_payload, then iopub_tx.send.
ZmqIopubInbound(payload) ==
    LET r == from_zmq_payload(payload) IN
    /\ driver = "zmq" /\ task = "running"
    /\ fut["iopub"].pc = "recv"
    /\ sock_ok
    /\ IF r = Panic THEN TaskPanicked
       ELSE IF r = None THEN IopubSkip
       ELSE IopubRecv(AsIopub(r.msg))

\* receive_fut on a binary frame: from_ws_payload, then the match on the
\* channel; a frame of an unexpected channel is skipped like one that does not
\* decode.
WsInbound(payload) ==
    LET r == from_ws_payload(payload) IN
    /\ driver = "ws" /\ task = "running"
    /\ fut["receive"].pc = "recv"
    /\ sock_ok
    /\ IF r = Panic THEN TaskPanicked
       ELSE IF r = None THEN WsUnroutable("malformed")
       ELSE IF r.channel \in Chans
            THEN IF r.msg.parent_header = NoHeader THEN WsUnroutable("noparent")
                 ELSE WsReply(r.channel, r.msg.parent_header.msg_id)
            ELSE IF r.channel = "iopub" THEN IopubRecv(AsIopub(r.msg))
            ELSE WsUnroutable("malformed")

(* ---------------------------------------------------------------------- *)
(* run_cell                                                                *)
(* ---------------------------------------------------------------------- *)

\* run_cell is invoked, n of the messages in the IOPub queue being observed;
\* invocations are numbered in the order they start.
Invoke(r, n) ==
    /\ CallerClones > 0
    /\ rc[r].pc = "idle"
    /\ \A b \in Runs : b < r => rc[b].pc # "idle"
    /\ rc' = [rc EXCEPT ![r].pc = "drain", ![r].found = (n > 0), ![r].stale = n]
    /\ UNCHANGED connVars
    /\ UNCHANGED <<codecVars, histVars, infoVars, localVars>>

\* run_cell is invoked.
run_cell(r) == Invoke(r, 0)

\* run_cell is invoked and the messages it finds in the IOPub queue are observed.
RunCellObserved(r) == Invoke(r, Len(iopub_q))

\* The oldest message has left the IOPub queue: it is no longer among the ones
\* an invocation found there.
Aged(runs) == [r \in Runs |-> [runs[r] EXCEPT !.stale = IF @ > 0 THEN @ - 1 ELSE 0]]

\* while conn.try_recv_iopub().is_some() {}: one lingering message is discarded.
RunDrain(r) ==
    /\ rc[r].pc = "drain"
    /\ try_recv_iopub
    /\ rc' = Aged(rc)
    /\ UNCHANGED <<codecVars, histVars, infoVars, localVars>>

\* Faulty variant of RunDrained: try_recv_iopub is called once, not until it
\* returns None.
RunDrainedOnce(r) ==
    /\ rc[r].pc = "drain"
    /\ rc' = [rc EXCEPT ![r].pc = "call"]
    /\ UNCHANGED connVars
    /\ UNCHANGED <<codecVars, histVars, infoVars, localVars>>

\* try_recv_iopub returned None: the drain loop is over.
RunDrained(r) ==
    /\ rc[r].pc = "drain"
    /\ iopub_q = <<>>
    /\ rc' = [rc EXCEPT ![r].pc = "call"]
    /\ UNCHANGED connVars
    /\ UNCHANGED <<codecVars, histVars, infoVars, localVars>>

\* conn.call_shell(execute_request), first half: the correlation entry.
RunCallInsert(r) ==
    /\ rc[r].pc = "call"
    /\ \E c \in Slots :
        /\ call_shell(c, NewMsgId(c))
        /\ rc' = [rc EXCEPT ![r].pc = "sending", ![r].slot = c]
    /\ UNCHANGED <<codecVars, histVars, infoVars, localVars>>

\* conn.call_shell(..).await?: the push; on KernelDisconnect run_cell returns the
\* error and no reader task is spawned.
RunCallSend(r) ==
    /\ rc[r].pc = "sending"
    /\ CallSend(rc[r].slot)
    /\ rc' = [rc EXCEPT ![r].pc = IF SendOutcome(rc[r].slot) = "failed"
                                  THEN "failed" ELSE "returned",
                        ![r].found = (@ /\ SendOutcome(rc[r].slot) # "failed")]
    /\ UNCHANGED <<codecVars, histVars, infoVars, localVars>>

\* Faulty variant of RunDropPending: the PendingRequest is kept by the reader
\* task.
RunKeepPending(r) ==
    /\ rc[r].pc = "returned"
    /\ rc' = [rc EXCEPT ![r].pc = "spawn"]
    /\ UNCHANGED connVars
    /\ UNCHANGED <<codecVars, histVars, infoVars, localVars>>

\* The PendingRequest returned by call_shell is a temporary: it is dropped at the
\* end of the statement.
RunDropPending(r) ==
    /\ rc[r].pc = "returned"
    /\ drop(rc[r].slot)
    /\ rc' = [rc EXCEPT ![r].pc = "spawn"]
    /\ UNCHANGED <<codecVars, histVars, infoVars, localVars>>

\* conn.clone() and tokio::spawn of the reader task, which starts with
\* status = Busy.
RunSpawn(r) ==
    /\ rc[r].pc = "spawn"
    /\ CallerClones < MaxClones
    /\ clones' = clones + 1
    /\ rc' = [rc EXCEPT ![r].pc = "reading", ![r].status = "busy"]
    /\ UNCHANGED <<driver, pc, req, reply_tx_map, oneshot, shell_q, control_q, iopub_q,
                   hand, closed, signal, fut, task, sock_ok, inserted, ndeliv, at_close,
                   at_exit>>
    /\ UNCHANGED <<codecVars, histVars, infoVars, localVars>>

\* Faulty variant of Decodes: every message's content is deserialized, whatever its kind.
DecodesAlways(msg) == msg.ok

\* into_typed on the message's content succeeds, or the kind is one whose content
\* run_cell never deserializes.
Decodes(msg) == msg.kind \in TypedKinds => msg.ok

\* The reader's status after a message that decodes: only a status message
\* changes it.
StatusAfter(st, msg) == IF msg.kind = "status" THEN msg.state ELSE st

\* Faulty variant of LoopEnds: the loop runs only while the kernel is busy.
LoopEndsNotBusy(st) == st # "busy"

\* while status != KernelStatus::Idle
LoopEnds(st) == st = "idle"

\* Faulty variant of Emits: the echo of the input code is translated too.
EmitsAlsoInput(msg) == msg.kind \notin {"status", "other"}

\* The arms of the match that send an event: every kind but Status, ExecuteInput
\* and the catch-all.
Emits(msg) == msg.kind \in TypedKinds \ {"status"}

\* The RunCellEvent variant sent for a message: Stdout for a stream named
\* "stdout", Stderr for a stream of any other name, the variant of the message's
\* kind otherwise.
EventOf(msg) ==
    IF msg.kind = "stream"
    THEN IF msg.name = "stdout" THEN "stdout" ELSE "stderr"
    ELSE msg.kind

\* One iteration of the reader on message msg: `?` on a DeserializeMessage error
\* ends the reader with an error, otherwise the event of the message, if it has
\* one, is sent and an idle status ends the loop.
OnMessage(run, msg) ==
    IF ~Decodes(msg)
    THEN [run EXCEPT !.pc = "exiting", !.cause = "deserialize"]
    ELSE LET st == StatusAfter(run.status, msg) IN
         [run EXCEPT !.status = st,
                     !.events = IF Emits(msg) THEN Append(@, EventOf(msg)) ELSE @,
                     !.pc = IF LoopEnds(st) THEN "exiting" ELSE "reading",
                     !.cause = IF LoopEnds(st) THEN "idle" ELSE "none",
                     !.endparent = IF LoopEnds(st) THEN msg.parent ELSE -1]

\* conn.recv_iopub().await? failed with KernelDisconnect.
OnRecvError(run) == [run EXCEPT !.pc = "exiting", !.cause = "recv_error"]

\* The reader task: conn.recv_iopub().await returns and the message is handled.
RunRead(r) ==
    /\ rc[r].pc = "reading"
    /\ recv_iopub
    /\ rc' = IF RecvIopub = "message"
             THEN [Aged(rc) EXCEPT ![r] = OnMessage(@, Head(iopub_q))]
             ELSE [rc EXCEPT ![r] = OnRecvError(@)]
    /\ UNCHANGED <<codecVars, histVars, infoVars, localVars>>

\* Faulty variant of Failed: a Disconnect event ends every run.
FailedAlways(run) == TRUE

\* if let Err(err) = stream_results_fut.await: the reader ended with an error.
Failed(run) == run.cause # "idle"

\* Faulty variant of RunExit: the reader's clone goes without its share of the
\* DropGuard, so the signal is not cancelled when it was the last one.
RunExitSilent(r) ==
    /\ rc[r].pc = "exiting"
    /\ clones' = clones - 1
    /\ rc' = [rc EXCEPT ![r].pc = "ended",
                        ![r].found = FALSE,
                        ![r].events = IF Failed(rc[r]) THEN Append(@, "disconnect") ELSE @,
                        ![r].ndisc = IF Failed(rc[r]) THEN @ + 1 ELSE @]
    /\ UNCHANGED <<driver, pc, req, reply_tx_map, oneshot, shell_q, control_q, iopub_q,
                   hand, closed, signal, fut, task, sock_ok, inserted, ndeliv, at_close,
                   at_exit>>
    /\ UNCHANGED <<codecVars, histVars, infoVars, localVars>>

\* The spawned task ends: a Disconnect event is sent if the reader failed, the
\* reader's clone of the connection is dropped, which cancels the signal if it
\* was the last one, and both senders of the event channel are gone.
RunExit(r) ==
    /\ rc[r].pc = "exiting"
    /\ clones' = clones - 1
    /\ signal' = (signal \/ clones = 1)
    /\ rc' = [rc EXCEPT ![r].pc = "ended",
                        ![r].found = FALSE,
                        ![r].events = IF Failed(rc[r]) THEN Append(@, "disconnect") ELSE @,
                        ![r].ndisc = IF Failed(rc[r]) THEN @ + 1 ELSE @]
    /\ UNCHANGED <<driver, pc, req, reply_tx_map, oneshot, shell_q, control_q, iopub_q,
                   hand, closed, fut, task, sock_ok, inserted, ndeliv, at_close, at_exit>>
    /\ UNCHANGED <<codecVars, histVars, infoVars, localVars>>

\* The caller's rx.recv().await returns the oldest event of the channel.
EventRecv(r) ==
    /\ rc[r].events # <<>>
    /\ rc' = [rc EXCEPT ![r].events = Tail(@)]
    /\ UNCHANGED connVars
    /\ UNCHANGED <<codecVars, histVars, infoVars, localVars>>

\* The events that were sent and not yet received by the callers.
Unconsumed == UNION {{<<r, i>> : i \in 1..Len(rc[r].events)} : r \in Runs}

(* ---------------------------------------------------------------------- *)
(* Specification of the request/reply correlation layer                    *)
(* ---------------------------------------------------------------------- *)

\* Calls carry pairwise-distinct msg_ids; no close(), the connection stays open.
Next ==
    \/ \E c \in Slots : call_shell(c, NewMsgId(c))
        /\ UNCHANGED restVars
    \/ \E c \in Slots : call_control(c, NewMsgId(c))
        /\ UNCHANGED restVars
    \/ \E c \in Slots : CallSend(c)
        /\ UNCHANGED restVars
    \/ \E c \in Slots : get_reply(c)
        /\ UNCHANGED restVars
    \/ \E c \in Slots : GetReplyReturn(c)
        /\ UNCHANGED restVars
    \/ \E c \in Slots : drop(c)
        /\ UNCHANGED restVars
    \/ \E ch \in Chans : ZmqTake(ch)
        /\ UNCHANGED restVars
    \/ \E ch \in Chans : ZmqSent(ch)
        /\ UNCHANGED restVars
    \/ \E ch \in Chans, m \in MsgIds : ZmqReply(ch, m)
        /\ UNCHANGED restVars
    \/ \E ch \in Chans, kind \in Unroutable : ZmqUnroutable(ch, kind)
        /\ UNCHANGED restVars
    \/ \E ch \in Chans : WsTake(ch)
        /\ UNCHANGED restVars
    \/ WsSent
        /\ UNCHANGED restVars
    \/ \E ch \in Chans, m \in MsgIds : WsReply(ch, m)
        /\ UNCHANGED restVars
    \/ \E kind \in Unroutable : WsUnroutable(kind)
        /\ UNCHANGED restVars

Spec == Init /\ [][Next]_vars

(* ---------------------------------------------------------------------- *)
(* Specification of calls against close(): full queues, suspended and      *)
(* abandoned calls, cancellation of the driver task                        *)
(* ---------------------------------------------------------------------- *)

NextClose ==
    \/ \E c \in Slots : call_shell(c, NewMsgId(c))
        /\ UNCHANGED restVars
    \/ \E c \in Slots : call_control(c, NewMsgId(c))
        /\ UNCHANGED restVars
    \/ \E c \in Slots : CallSend(c)
        /\ UNCHANGED restVars
    \/ \E c \in Slots : CallAbandon(c)
        /\ UNCHANGED restVars
    \/ \E ch \in Chans : UntrackedCall(ch)
        /\ UNCHANGED restVars
    \/ \E c \in Slots : drop(c)
        /\ UNCHANGED restVars
    \/ close
        /\ UNCHANGED restVars
    \/ \E ch \in Chans : ZmqTake(ch)
        /\ UNCHANGED restVars
    \/ \E ch \in Chans : ZmqSent(ch)
        /\ UNCHANGED restVars
    \/ \E ch \in Chans : WsTake(ch)
        /\ UNCHANGED restVars
    \/ WsSent
        /\ UNCHANGED restVars
    \/ TaskCancelled
        /\ UNCHANGED restVars

SpecClose == Init /\ [][NextClose]_vars

(* ---------------------------------------------------------------------- *)
(* Specification of run_cell: one invocation after another, the kernel     *)
(* publishing IOPub messages of every kind, close() and transport failure  *)
(* ---------------------------------------------------------------------- *)

\* A run_cell starts when the ones before it are over.
Serial(r) == \A b \in Runs : b < r => rc[b].pc \in {"ended", "failed"}

NextRun ==
    \/ \E r \in Runs : Serial(r) /\ run_cell(r)
    \/ \E r \in Runs : RunDrain(r)
    \/ \E r \in Runs : RunDrained(r)
    \/ \E r \in Runs : RunCallInsert(r)
    \/ \E r \in Runs : RunCallSend(r)
    \/ \E r \in Runs : RunDropPending(r)
    \/ \E r \in Runs : RunSpawn(r)
    \/ \E r \in Runs : RunRead(r)
    \/ \E r \in Runs : RunExit(r)
    \/ \E r \in Runs : EventRecv(r)
    \/ \E msg \in IopubMsgs :
        /\ Len(iopub_q) + Cardinality(Unconsumed) < MaxBuf
        /\ IopubRecv(msg)
        /\ UNCHANGED restVars
    \/ close
        /\ UNCHANGED restVars
    \/ TransportFail
        /\ UNCHANGED restVars
    \/ IopubLoopEnd
        /\ UNCHANGED restVars

\* The runtime keeps polling a spawned reader task.
SpecRun ==
    /\ Init /\ [][NextRun]_vars
    /\ \A r \in 1..MaxRun : WF_vars(RunRead(r)) /\ WF_vars(RunExit(r))

(* ---------------------------------------------------------------------- *)
(* Specification of the drain of run_cell: as above, the messages each     *)
(* invocation finds in the IOPub queue being observed                      *)
(* ---------------------------------------------------------------------- *)

NextDrain ==
    \/ \E r \in Runs : Serial(r) /\ RunCellObserved(r)
    \/ \E r \in Runs : RunDrain(r)
    \/ \E r \in Runs : RunDrained(r)
    \/ \E r \in Runs : RunCallInsert(r)
    \/ \E r \in Runs : RunCallSend(r)
    \/ \E r \in Runs : RunDropPending(r)
    \/ \E r \in Runs : RunSpawn(r)
    \/ \E r \in Runs : RunRead(r)
    \/ \E r \in Runs : RunExit(r)
    \/ \E r \in Runs : EventRecv(r)
    \/ \E msg \in IopubMsgs :
        /\ Len(iopub_q) + Cardinality(Unconsumed) < MaxBuf
        /\ IopubRecv(msg)
        /\ UNCHANGED restVars
    \/ close
        /\ UNCHANGED restVars

SpecDrain == Init /\ [][NextDrain]_vars

(* ---------------------------------------------------------------------- *)
(* Specification of the driver task against cancellation: send traffic,    *)
(* an IOPub flood that fills the queue, readers that may or may not drain  *)
(* it, transport failure, close() and the dropping of clones               *)
(* ---------------------------------------------------------------------- *)

\* The callers of this specification wait until the driver has taken the
\* previous message before they send the next one.
SendQueuesEmpty == shell_q = <<>> /\ control_q = <<>>

NextCancel ==
    \/ \E ch \in Chans : SendQueuesEmpty /\ UntrackedCall(ch)
        /\ UNCHANGED restVars
    \/ \E ch \in Chans : ZmqTake(ch)
        /\ UNCHANGED restVars
    \/ \E ch \in Chans : ZmqSent(ch)
        /\ UNCHANGED restVars
    \/ \E ch \in Chans : ZmqBreak(ch)
        /\ UNCHANGED restVars
    \/ \E ch \in Chans : WsTake(ch)
        /\ UNCHANGED restVars
    \/ WsSent
        /\ UNCHANGED restVars
    \/ WsSendBreak
        /\ UNCHANGED restVars
    \/ \E msg \in Flood : IopubRecv(msg)
        /\ UNCHANGED restVars
    \/ IopubSendResume
        /\ UNCHANGED restVars
    \/ IopubLoopEnd
        /\ UNCHANGED restVars
    \/ try_recv_iopub
        /\ UNCHANGED restVars
    \/ TransportFail
        /\ UNCHANGED restVars
    \/ close
        /\ UNCHANGED restVars
    \/ CloneConnection
        /\ UNCHANGED restVars
    \/ DropConnection
        /\ UNCHANGED restVars
    \/ TaskJoined
        /\ UNCHANGED restVars
    \/ TaskCancelled
        /\ UNCHANGED restVars

\* The runtime keeps polling the spawned driver task, so a cancelled signal is
\* observed.
SpecCancel == Init /\ [][NextCancel]_vars /\ WF_vars(TaskCancelled /\ UNCHANGED restVars)

(* ---------------------------------------------------------------------- *)
(* Specification of pending requests against close() and the dropping of   *)
(* the connection                                                          *)
(* ---------------------------------------------------------------------- *)

NextAwait ==
    \/ \E c \in Slots : call_shell(c, NewMsgId(c))
        /\ UNCHANGED restVars
    \/ \E c \in Slots : call_control(c, NewMsgId(c))
        /\ UNCHANGED restVars
    \/ \E c \in Slots : CallSend(c)
        /\ UNCHANGED restVars
    \/ \E c \in Slots : get_reply(c)
        /\ UNCHANGED restVars
    \/ \E c \in Slots : GetReplyReturn(c)
        /\ UNCHANGED restVars
    \/ \E ch \in Chans : ZmqTake(ch)
        /\ UNCHANGED restVars
    \/ \E ch \in Chans : ZmqSent(ch)
        /\ UNCHANGED restVars
    \/ \E ch \in Chans, m \in MsgIds : ZmqReply(ch, m)
        /\ UNCHANGED restVars
    \/ \E ch \in Chans : WsTake(ch)
        /\ UNCHANGED restVars
    \/ WsSent
        /\ UNCHANGED restVars
    \/ \E ch \in Chans, m \in MsgIds : WsReply(ch, m)
        /\ UNCHANGED restVars
    \/ close
        /\ UNCHANGED restVars
    \/ DropConnection
        /\ UNCHANGED restVars
    \/ TaskCancelled
        /\ UNCHANGED restVars

\* The runtime keeps polling the driver task and every caller that awaits
\* get_reply.
SpecAwait ==
    /\ Init /\ [][NextAwait]_vars
    /\ WF_vars(TaskCancelled /\ UNCHANGED restVars)
    /\ \A c \in Slots : WF_vars(GetReplyReturn(c) /\ UNCHANGED restVars)

(* ---------------------------------------------------------------------- *)
(* Specification of the payload codecs: a message is encoded by the codec  *)
(* of the connection's driver and the payload is decoded again             *)
(* ---------------------------------------------------------------------- *)

InitCodec ==
    /\ InitConn
    /\ rc = [r \in 1..MaxRun |-> NoRun]
    /\ hist = NoHist
    /\ cin \in CodecInputs
    /\ cin.codec = driver
    /\ cwire = <<>>
    /\ cout = Pending
    /\ body = [c \in Slots |-> NoContent]
    /\ lk = NoLaunch
    /\ ks = NoListing

\* to_zmq_payload(&msg, &key)
ZmqEncode ==
    /\ cin.codec = "zmq" /\ cwire = <<>>
    /\ cwire' = to_zmq_payload(cin.msg, cin.key)
    /\ UNCHANGED <<cin, cout>>

\* from_zmq_payload(payload)
ZmqDecode ==
    /\ cin.codec = "zmq" /\ cwire # <<>> /\ cout = Pending
    /\ cout' = from_zmq_payload(cwire)
    /\ UNCHANGED <<cin, cwire>>

\* to_ws_payload(&msg, channel)
WsEncode ==
    /\ cin.codec = "ws" /\ cwire = <<>>
    /\ cwire' = to_ws_payload(cin.msg, cin.channel)
    /\ UNCHANGED <<cin, cout>>

\* from_ws_payload(&payload)
WsDecode ==
    /\ cin.codec = "ws" /\ cwire # <<>> /\ cout = Pending
    /\ cout' = from_ws_payload(cwire)
    /\ UNCHANGED <<cin, cwire>>

NextCodec ==
    \/ ZmqEncode
        /\ UNCHANGED <<connVars, runVars, histVars, infoVars, localVars>>
    \/ ZmqDecode
        /\ UNCHANGED <<connVars, runVars, histVars, infoVars, localVars>>
    \/ WsEncode
        /\ UNCHANGED <<connVars, runVars, histVars, infoVars, localVars>>
    \/ WsDecode
        /\ UNCHANGED <<connVars, runVars, histVars, infoVars, localVars>>

SpecCodec == InitCodec /\ [][NextCodec]_vars

(* ---------------------------------------------------------------------- *)
(* Specification of the drivers against the payloads they receive: calls   *)
(* that wait for replies, well-formed, forged and malformed payloads       *)
(* ---------------------------------------------------------------------- *)

\* The payload and its channel are recorded as the last ones received.
Received(payload, ch) ==
    /\ hist' = [hist EXCEPT !.inbound = payload, !.inch = ch]
    /\ UNCHANGED <<runVars, codecVars, infoVars, localVars>>

NextWire ==
    \/ \E c \in Slots : call_shell(c, NewMsgId(c))
        /\ UNCHANGED restVars
    \/ \E c \in Slots : call_control(c, NewMsgId(c))
        /\ UNCHANGED restVars
    \/ \E c \in Slots : CallSend(c)
        /\ UNCHANGED restVars
    \/ \E ch \in Chans : ZmqTake(ch)
        /\ UNCHANGED restVars
    \/ \E ch \in Chans : ZmqSent(ch)
        /\ UNCHANGED restVars
    \/ \E ch \in Chans : WsTake(ch)
        /\ UNCHANGED restVars
    \/ WsSent
        /\ UNCHANGED restVars
    \/ \E ch \in Chans, payload \in ZmqInbox : ZmqInbound(ch, payload)
        /\ Received(payload, ch)
    \/ \E payload \in ZmqInbox :
        /\ Len(iopub_q) < MaxBuf
        /\ ZmqIopubInbound(payload)
        /\ Received(payload, "iopub")
    \/ \E payload \in WsInbox :
        /\ Len(iopub_q) < MaxBuf
        /\ WsInbound(payload)
        /\ Received(payload, "ws")

SpecWire == Init /\ [][NextWire]_vars

(* ---------------------------------------------------------------------- *)
(* Specification of the send order: calls on both channels, the send loops *)
(* of both drivers, close() and transport failure                          *)
(* ---------------------------------------------------------------------- *)

\* The message call c pushes, if it does, is recorded as enqueued on its channel.
Enqueued(c) ==
    /\ hist' = IF SendOutcome(c) = "pending"
               THEN [hist EXCEPT !.enq[req[c].chan] = Append(@, Msg(req[c].id, c))]
               ELSE hist
    /\ UNCHANGED <<runVars, codecVars, infoVars, localVars>>

\* The message a send loop takes from the queue of ch and passes to
\* shell.send / control.send / ws_tx.send is recorded as handed to the transport.
HandedOver(ch) ==
    /\ hist' = [hist EXCEPT !.wire[ch] = Append(@, fut'[IF driver = "zmq" THEN ch ELSE "send"].msg)]
    /\ UNCHANGED <<runVars, codecVars, infoVars, localVars>>

NextOrder ==
    \/ \E c \in Slots : call_shell(c, NewMsgId(c))
        /\ UNCHANGED restVars
    \/ \E c \in Slots : call_control(c, NewMsgId(c))
        /\ UNCHANGED restVars
    \/ \E c \in Slots : CallSend(c)
        /\ Enqueued(c)
    \/ \E ch \in Chans : ZmqTake(ch)
        /\ HandedOver(ch)
    \/ \E ch \in Chans : ZmqSent(ch)
        /\ UNCHANGED restVars
    \/ \E ch \in Chans : WsTake(ch)
        /\ HandedOver(ch)
    \/ WsSent
        /\ UNCHANGED restVars
    \/ close
        /\ UNCHANGED restVars
    \/ TransportFail
        /\ UNCHANGED restVars

SpecOrder == Init /\ [][NextOrder]_vars

(* ---------------------------------------------------------------------- *)
(* Specification of the IOPub order: the kernel publishes distinguishable  *)
(* messages, callers read with recv_iopub and try_recv_iopub, close()      *)
(* ---------------------------------------------------------------------- *)

\* The messages the kernel publishes here: well-formed outputs of three kinds.
Outputs == {IopubMsg(k, TRUE, "none", 0) : k \in {"stream", "display_data", "error"}}

\* The message the IOPub loop decoded is recorded as received by the driver.
Published(msg) ==
    /\ hist' = [hist EXCEPT !.pub = Append(@, msg)]
    /\ UNCHANGED <<runVars, codecVars, infoVars, localVars>>

\* The message recv_iopub / try_recv_iopub returns, if any, is recorded as
\* returned.
Returned ==
    /\ hist' = IF iopub_q # <<>> THEN [hist EXCEPT !.ret = Append(@, Head(iopub_q))]
               ELSE hist
    /\ UNCHANGED <<runVars, codecVars, infoVars, localVars>>

NextIopub ==
    \/ \E msg \in Outputs :
        /\ Len(hist.pub) < MaxPub
        /\ IopubRecv(msg)
        /\ Published(msg)
    \/ recv_iopub
        /\ Returned
    \/ try_recv_iopub
        /\ Returned
    \/ close
        /\ UNCHANGED restVars
    \/ TransportFail
        /\ UNCHANGED restVars
    \/ IopubLoopEnd
        /\ UNCHANGED restVars
    \/ TaskCancelled
        /\ UNCHANGED restVars

SpecIopub == Init /\ [][NextIopub]_vars

(* ---------------------------------------------------------------------- *)
(* Specification of the queue capacities: callers fill the send queues and *)
(* the kernel floods IOPub, in turns                                       *)
(* ---------------------------------------------------------------------- *)

\* The IOPub queue is empty, or full with the loop suspended on its push.
IopubSettled ==
    \/ iopub_q = <<>> /\ fut[IopubOwner].pc # "pushing"
    \/ Len(iopub_q) = IopubCap /\ fut[IopubOwner].pc = "pushing"

\* No call is in progress and the send queues are empty.
SendIdle == SendQueuesEmpty /\ \A c \in Slots : pc[c] = "idle"

\* Calls are issued while the IOPub queue is empty or full, IOPub messages
\* arrive and are read while no call is in progress.
NextQueues ==
    \/ \E ch \in Chans : IopubSettled /\ UntrackedCall(ch)
        /\ UNCHANGED restVars
    \/ \E c \in Slots : IopubSettled /\ call_shell(c, NewMsgId(c))
        /\ UNCHANGED restVars
    \/ \E c \in Slots : IopubSettled /\ call_control(c, NewMsgId(c))
        /\ UNCHANGED restVars
    \/ \E c \in Slots : CallSend(c)
        /\ UNCHANGED restVars
    \/ \E ch \in Chans : ZmqTake(ch)
        /\ UNCHANGED restVars
    \/ \E ch \in Chans : ZmqSent(ch)
        /\ UNCHANGED restVars
    \/ \E ch \in Chans : WsTake(ch)
        /\ UNCHANGED restVars
    \/ WsSent
        /\ UNCHANGED restVars
    \/ \E msg \in Flood : SendIdle /\ IopubRecv(msg)
        /\ UNCHANGED restVars
    \/ SendIdle /\ IopubSendResume
        /\ UNCHANGED restVars
    \/ SendIdle /\ try_recv_iopub
        /\ UNCHANGED restVars
    \/ close
        /\ UNCHANGED restVars

SpecQueues == Init /\ [][NextQueues]_vars

(* ---------------------------------------------------------------------- *)
(* commands::kernel_info and the typing of a reply                         *)
(* ---------------------------------------------------------------------- *)

\* The reply contents the kernel sends: ok with one of two KernelInfoReply
\* values, ok with fields that do not fit, error with and without the fields of
\* an ErrorReply, and abort.
ReplyContents ==
    {Content("ok", TRUE, 1), Content("ok", TRUE, 2), Content("ok", FALSE, 0),
     Content("error", TRUE, 0), Content("error", FALSE, 0), Content("abort", TRUE, 0)}

\* A result: Ok with a value, the variants Error and Abort of Reply, or one of
\* the errors KernelDisconnect and DeserializeMessage.
Typed(tag, v) == [tag |-> tag, value |-> v]

\* Faulty variant of into_typed: the status tag is not looked at, whatever fits
\* U is Ok.
into_typed_untagged(content) ==
    IF content.fits THEN Typed("Ok", content.value) ELSE Typed("DeserializeMessage", 0)

\* Faulty variant of into_typed: the variant Abort has no alias.
into_typed_no_alias(content) ==
    IF content.status = "ok"
    THEN (IF content.fits THEN Typed("Ok", content.value)
          ELSE Typed("DeserializeMessage", 0))
    ELSE IF content.status = "error"
    THEN (IF content.fits THEN Typed("Error", 0) ELSE Typed("DeserializeMessage", 0))
    ELSE IF content.status = "abort"
    THEN Typed("Abort", 0)
    ELSE Typed("DeserializeMessage", 0)

\* KernelMessage::into_typed::<Reply<U>>: serde picks the variant by the
\* "status" tag and reads the variant's type from the other fields.
into_typed(content) ==
    IF content.status = "ok"
    THEN (IF content.fits THEN Typed("Ok", content.value)
          ELSE Typed("DeserializeMessage", 0))
    ELSE IF content.status = "error"
    THEN (IF content.fits THEN Typed("Error", 0) ELSE Typed("DeserializeMessage", 0))
    ELSE IF content.status \in {"abort", "aborted"}
    THEN Typed("Abort", 0)
    ELSE Typed("DeserializeMessage", 0)

\* The reply is sent into the one-shot channel of the waiter of m, if its
\* Receiver is alive: the channel now holds the reply's content.
Carried(m, content) ==
    /\ body' = IF Waiter(m) # 0 /\ ReceiverAlive(Waiter(m))
               THEN [body EXCEPT ![Waiter(m)] = content]
               ELSE body
    /\ UNCHANGED <<runVars, codecVars, histVars, localVars>>

\* What get_reply::<U> of call c has returned: KernelDisconnect when the Sender
\* was dropped, the typed content of the reply otherwise.
GetReplyResult(c) ==
    IF oneshot[c].st = "value" THEN into_typed(body[c]) ELSE Typed("KernelDisconnect", 0)

\* The kernel_info that made call c has returned: call_shell failed, or get_reply
\* returned (and the PendingRequest may have been dropped since).
InfoReturned(c) == pc[c] \in {"failed", "replied", "disconnected", "dropped"}

\* What kernel_info returns: the error of call_shell or of get_reply, the info of
\* Reply::Ok, KernelDisconnect for Reply::Error and Reply::Abort.
kernel_info(c) ==
    IF pc[c] = "failed" THEN Typed("KernelDisconnect", 0)
    ELSE IF GetReplyResult(c).tag \in {"Error", "Abort"} THEN Typed("KernelDisconnect", 0)
    ELSE GetReplyResult(c)

(* ---------------------------------------------------------------------- *)
(* Specification of kernel_info: every tracked call is the call_shell of a *)
(* kernel_info, the kernel replies with any content on either channel      *)
(* ---------------------------------------------------------------------- *)

\* The kernel_info calls that have not returned.
InfoRunning == {c \in Slots : pc[c] \in {"sending", "pending", "awaiting"}}

\* One kernel_info runs after the other; replies that find no waiter are
\* dropped and change nothing.
NextInfo ==
    \/ \E c \in Slots : InfoRunning = {} /\ call_shell(c, NewMsgId(c))
        /\ UNCHANGED restVars
    \/ \E c \in Slots : CallSend(c)
        /\ Enqueued(c)
    \/ \E c \in Slots : get_reply(c)
        /\ UNCHANGED restVars
    \/ \E c \in Slots : GetReplyReturn(c)
        /\ UNCHANGED restVars
    \/ \E c \in Slots : pc[c] \in {"replied", "disconnected"} /\ drop(c)
        /\ UNCHANGED restVars
    \/ \E ch \in Chans : ZmqTake(ch)
        /\ UNCHANGED restVars
    \/ \E ch \in Chans : ZmqSent(ch)
        /\ UNCHANGED restVars
    \/ \E ch \in Chans, m \in MsgIds, content \in ReplyContents :
        /\ Waiter(m) # 0
        /\ ZmqReply(ch, m)
        /\ Carried(m, content)
    \/ \E ch \in Chans : WsTake(ch)
        /\ UNCHANGED restVars
    \/ WsSent
        /\ UNCHANGED restVars
    \/ \E ch \in Chans, m \in MsgIds, content \in ReplyContents :
        /\ Waiter(m) # 0
        /\ WsReply(ch, m)
        /\ Carried(m, content)
    \/ close
        /\ UNCHANGED restVars

SpecInfo == Init /\ [][NextInfo]_vars

(* ---------------------------------------------------------------------- *)
(* Specification of the reply envelope: one call_shell, and the kernel     *)
(* answers it with a body of any status                                    *)
(* ---------------------------------------------------------------------- *)

\* The values of the "status" field of a reply body: the three tags of Reply,
\* the alias of abort, and a string that is no tag.
ReplyStatuses == {"ok", "error", "abort", "aborted", "busy"}

\* The reply bodies: any status, the other fields fitting the variant's type or
\* not.
ReplyBodies == {Content(st, f, 1) : st \in ReplyStatuses, f \in BOOLEAN}

NextReply ==
    \/ \E c \in Slots : InfoRunning = {} /\ pc[c] = "idle" /\ call_shell(c, NewMsgId(c))
        /\ UNCHANGED restVars
    \/ \E c \in Slots : CallSend(c)
        /\ Enqueued(c)
    \/ \E c \in Slots : get_reply(c)
        /\ UNCHANGED restVars
    \/ \E c \in Slots : GetReplyReturn(c)
        /\ UNCHANGED restVars
    \/ \E ch \in Chans : ZmqTake(ch)
        /\ UNCHANGED restVars
    \/ \E ch \in Chans : ZmqSent(ch)
        /\ UNCHANGED restVars
    \/ \E ch \in Chans, m \in MsgIds, content \in ReplyBodies :
        /\ Waiter(m) # 0
        /\ ZmqReply(ch, m)
        /\ Carried(m, content)
    \/ \E ch \in Chans : WsTake(ch)
        /\ UNCHANGED restVars
    \/ WsSent
        /\ UNCHANGED restVars
    \/ \E ch \in Chans, m \in MsgIds, content \in ReplyBodies :
        /\ Waiter(m) # 0
        /\ WsReply(ch, m)
        /\ Carried(m, content)

SpecReply == Init /\ [][NextReply]_vars

(* ---------------------------------------------------------------------- *)
(* Specification of replies under IOPub back-pressure: the kernel floods   *)
(* IOPub, nobody reads it; calls are made and answered while the queue is  *)
(* empty or full                                                           *)
(* ---------------------------------------------------------------------- *)

\* The IOPub queue holds IopubCap unread messages and the loop that feeds it is
\* suspended on its push.
IopubFull == Len(iopub_q) = IopubCap /\ fut[IopubOwner].pc = "pushing"

NextPressure ==
    \/ \E msg \in Flood : SendIdle /\ IopubRecv(msg)
        /\ UNCHANGED restVars
    \/ \E c \in Slots : IopubSettled /\ call_shell(c, NewMsgId(c))
        /\ UNCHANGED restVars
    \/ \E c \in Slots : IopubSettled /\ call_control(c, NewMsgId(c))
        /\ UNCHANGED restVars
    \/ \E c \in Slots : CallSend(c)
        /\ UNCHANGED restVars
    \/ \E c \in Slots : get_reply(c)
        /\ UNCHANGED restVars
    \/ \E c \in Slots : GetReplyReturn(c)
        /\ UNCHANGED restVars
    \/ \E ch \in Chans : ZmqTake(ch)
        /\ UNCHANGED restVars
    \/ \E ch \in Chans : ZmqSent(ch)
        /\ UNCHANGED restVars
    \/ \E c \in Slots : req[c].id \in MsgIds /\ Waiter(req[c].id) = c /\ ZmqReply(req[c].chan, req[c].id)
        /\ UNCHANGED restVars
    \/ \E ch \in Chans : WsTake(ch)
        /\ UNCHANGED restVars
    \/ WsSent
        /\ UNCHANGED restVars
    \/ \E c \in Slots : req[c].id \in MsgIds /\ Waiter(req[c].id) = c /\ WsReply(req[c].chan, req[c].id)
        /\ UNCHANGED restVars

SpecPressure == Init /\ [][NextPressure]_vars

(* ---------------------------------------------------------------------- *)
(* Specification of run_cell with its driver: the execute_request goes to  *)
(* the kernel, which answers it on the shell channel and publishes output  *)
(* and an idle status on IOPub                                             *)
(* ---------------------------------------------------------------------- *)

\* The kernel has been handed the request of msg_id m on the shell channel.
OnWire(m) == \E i \in 1..Len(hist.wire["shell"]) : hist.wire["shell"][i].id = m

NextExec ==
    \/ \E r \in Runs : Serial(r) /\ run_cell(r)
    \/ \E r \in Runs : RunDrain(r)
    \/ \E r \in Runs : RunDrained(r)
    \/ \E r \in Runs : RunCallInsert(r)
    \/ \E r \in Runs : RunCallSend(r)
    \/ \E r \in Runs : RunDropPending(r)
    \/ \E r \in Runs : RunSpawn(r)
    \/ \E r \in Runs : RunRead(r)
    \/ \E r \in Runs : RunExit(r)
    \/ ZmqTake("shell")
        /\ HandedOver("shell")
    \/ ZmqSent("shell")
        /\ UNCHANGED restVars
    \/ \E m \in MsgIds :
        /\ OnWire(m)
        /\ ZmqReply("shell", m)
        /\ Received(<<m>>, "shell")
    \/ WsTake("shell")
        /\ HandedOver("shell")
    \/ WsSent
        /\ UNCHANGED restVars
    \/ \E m \in MsgIds :
        /\ OnWire(m)
        /\ WsReply("shell", m)
        /\ Received(<<m>>, "shell")
    \/ \E msg \in Flood \cup {IopubMsg("status", TRUE, "idle", 0)} :
        /\ Len(iopub_q) + Cardinality(Unconsumed) < MaxBuf
        /\ IopubRecv(msg)
        /\ UNCHANGED restVars

SpecExec == Init /\ [][NextExec]_vars

(* ---------------------------------------------------------------------- *)
(* Specification of the reader task against the clones of the caller:      *)
(* run_cell, the kernel's output and statuses, clones dropped, close()     *)
(* and the driver task observing the signal                                *)
(* ---------------------------------------------------------------------- *)

NextReader ==
    \/ \E r \in Runs : Serial(r) /\ run_cell(r)
    \/ \E r \in Runs : RunDrain(r)
    \/ \E r \in Runs : RunDrained(r)
    \/ \E r \in Runs : RunCallInsert(r)
    \/ \E r \in Runs : RunCallSend(r)
    \/ \E r \in Runs : RunDropPending(r)
    \/ \E r \in Runs : RunSpawn(r)
    \/ \E r \in Runs : RunRead(r)
    \/ \E r \in Runs : RunExit(r)
    \/ \E msg \in Flood \cup {IopubMsg("status", TRUE, "idle", 0),
                             IopubMsg("status", FALSE, "none", 0)} :
        /\ Len(iopub_q) + Cardinality(Unconsumed) < MaxBuf
        /\ IopubRecv(msg)
        /\ UNCHANGED restVars
    \/ DropConnection
        /\ UNCHANGED restVars
    \/ close
        /\ UNCHANGED restVars
    \/ TaskCancelled
        /\ UNCHANGED restVars

SpecReader == Init /\ [][NextReader]_vars

(* ---------------------------------------------------------------------- *)
(* Specification of several readers of IOPub: the kernel publishes         *)
(* messages that differ from each other, and every clone of the connection *)
(* calls recv_iopub and try_recv_iopub                                     *)
(* ---------------------------------------------------------------------- *)

\* The elements of a sequence.
Range(s) == {s[i] : i \in 1..Len(s)}

\* The message recv_iopub / try_recv_iopub returns, if any, is recorded as
\* returned to clone k.
ReturnedTo(k) ==
    /\ hist' = IF iopub_q # <<>>
               THEN [hist EXCEPT !.ret = Append(@, Head(iopub_q)), !.by = Append(@, k)]
               ELSE hist
    /\ UNCHANGED <<runVars, codecVars, infoVars, localVars>>

NextReaders ==
    \/ \E msg \in Outputs :
        /\ msg \notin Range(hist.pub)
        /\ IopubRecv(msg)
        /\ Published(msg)
    \/ \E k \in 1..MaxClones :
        /\ k <= clones
        /\ recv_iopub
        /\ ReturnedTo(k)
    \/ \E k \in 1..MaxClones :
        /\ k <= clones
        /\ try_recv_iopub
        /\ ReturnedTo(k)
    \/ CloneConnection
        /\ UNCHANGED restVars
    \/ close
        /\ UNCHANGED restVars

SpecReaders == Init /\ [][NextReaders]_vars

(* ---------------------------------------------------------------------- *)
(* Specification of calls whose message the caller built: its msg_id is    *)
(* new, or the one of an earlier call (a message sent again)               *)
(* ---------------------------------------------------------------------- *)

NextResend ==
    \/ \E c \in Slots :
        \E m \in {NewMsgId(c)} \cup {req[b].id : b \in 1..(c - 1)} : call_shell(c, m)
        /\ UNCHANGED restVars
    \/ \E c \in Slots : CallSend(c)
        /\ UNCHANGED restVars
    \/ \E c \in Slots : get_reply(c)
        /\ UNCHANGED restVars
    \/ \E c \in Slots : GetReplyReturn(c)
        /\ UNCHANGED restVars
    \/ \E c \in Slots : drop(c)
        /\ UNCHANGED restVars
    \/ ZmqTake("shell")
        /\ UNCHANGED restVars
    \/ ZmqSent("shell")
        /\ UNCHANGED restVars
    \/ \E m \in MsgIds : ZmqReply("shell", m)
        /\ UNCHANGED restVars
    \/ WsTake("shell")
        /\ UNCHANGED restVars
    \/ WsSent
        /\ UNCHANGED restVars
    \/ \E m \in MsgIds : WsReply("shell", m)
        /\ UNCHANGED restVars

SpecResend == Init /\ [][NextResend]_vars

(* ---------------------------------------------------------------------- *)
(* Specification of overlapping run_cell invocations on one connection:    *)
(* the kernel publishes output and, for every execute_request, one idle    *)
(* status                                                                  *)
(* ---------------------------------------------------------------------- *)

\* As Init, with room for one more run_cell than the ones that run in turn.
InitOverlap ==
    /\ InitConn
    /\ rc = [r \in 1..(MaxRun + 1) |-> NoRun]
    /\ cin = NoInput
    /\ cwire = <<>>
    /\ cout = Pending
    /\ hist = NoHist
    /\ body = [c \in Slots |-> NoContent]
    /\ lk = NoLaunch
    /\ ks = NoListing

\* The idle status that ends the execution of the request of run r.
IdleFor(r) == IopubMsg("status", TRUE, "idle", req[rc[r].slot].id)

\* The kernel publishes the idle status of the request of run r: once, after the
\* request was enqueued.
KernelIdle(r) ==
    /\ rc[r].pc \in {"returned", "spawn", "reading", "exiting", "ended"}
    /\ IdleFor(r) \notin {hist.pub[i] : i \in 1..Len(hist.pub)}
    /\ Len(iopub_q) < MaxBuf
    /\ IopubRecv(IdleFor(r))
    /\ Published(IdleFor(r))

\* The kernel publishes an output.
KernelOutput ==
    /\ Len(hist.pub) < MaxPub
    /\ Len(iopub_q) < MaxBuf
    /\ \E msg \in Flood : IopubRecv(msg) /\ Published(msg)

NextOverlap ==
    \/ \E r \in Runs : run_cell(r)
    \/ \E r \in Runs : RunDrain(r)
    \/ \E r \in Runs : RunDrained(r)
    \/ \E r \in Runs : RunCallInsert(r)
    \/ \E r \in Runs : RunCallSend(r)
    \/ \E r \in Runs : RunDropPending(r)
    \/ \E r \in Runs : RunSpawn(r)
    \/ \E r \in Runs : RunRead(r)
    \/ \E r \in Runs : RunExit(r)
    \/ \E r \in Runs : KernelIdle(r)
    \/ KernelOutput

\* Every run_cell that was invoked is polled to its return, every reader task is
\* polled, and the kernel answers every request with its idle status.
SpecOverlap ==
    /\ InitOverlap /\ [][NextOverlap]_vars
    /\ \A r \in 1..(MaxRun + 1) :
        /\ WF_vars(RunDrain(r)) /\ WF_vars(RunDrained(r))
        /\ WF_vars(RunCallInsert(r)) /\ WF_vars(RunCallSend(r))
        /\ WF_vars(RunDropPending(r)) /\ WF_vars(RunSpawn(r))
        /\ WF_vars(RunRead(r)) /\ WF_vars(RunExit(r))
        /\ WF_vars(KernelIdle(r))

(* ---------------------------------------------------------------------- *)
(* LocalKernel: start, kill, drop                                          *)
(* ---------------------------------------------------------------------- *)

\* control, shell, iopub, stdin, hb: the five get_available_port() of try_join!.
NumPorts == 5

\* The values Uuid::new_v4() gives for the kernel id.
Uuids == {"uuid-a", "uuid-b"}

\* The values of JUPYTER_RUNTIME_DIR: unset, a directory, the same directory
\* written with a trailing separator.
RuntimeDirs == {<<>>, <<"/", "run">>, <<"/", "run", "/">>}

\* environment::data_dir() on Linux without XDG_DATA_HOME.
data_dir == <<"$HOME", "/", ".local", "/", "share", "/", "jupyter">>

\* environment::runtime_dir()
runtime_dir(env) == IF env # <<>> THEN env ELSE data_dir \o <<"/", "runtime">>

\* runtime_dir + &format!("jute-{kernel_id}.json")
connection_filename(env, id) == runtime_dir(env) \o <<"jute-", id, ".json">>

Placeholder == "{connection_file}"

\* s.replace("{connection_file}", &connection_filename)
RECURSIVE replace(_, _)
replace(str, path) ==
    IF str = <<>> THEN <<>>
    ELSE (IF Head(str) = Placeholder THEN path ELSE <<Head(str)>>)
             \o replace(Tail(str), path)

\* The argv of the kernel specs started: none, the usual one, and one that names
\* the connection file twice in one element.
KernelSpecs ==
    {<<>>,
     <<<<"python">>, <<"-f">>, <<Placeholder>>>>,
     <<<<"kernel">>, <<"--files=", Placeholder, ",", Placeholder>>>>}

\* A step of the launch; the connection of the model is not involved.
Launch(next) ==
    /\ lk' = next
    /\ UNCHANGED <<connVars, runVars, codecVars, histVars, infoVars, ks>>

Fail(error) == [lk EXCEPT !.pc = "failed", !.err = error]

\* LocalKernel::start is called.
start == lk.pc = "idle" /\ Launch([lk EXCEPT !.pc = "ports"])

\* The ports the system may assign to a listener bound to 127.0.0.1:0: any port
\* no listener holds. Ports are named in the order of their first use, so the
\* choice is between each port assigned before and one new port.
Assignable(held) ==
    LET used == {lk.ports[i] : i \in 1..Len(lk.ports)} IN
    (used \cup {Cardinality(used) + 1}) \ held

\* One get_available_port(): bind, read the port and drop the listener within
\* one statement, so no listener is open when the next one binds; or the bind
\* fails.
get_available_port ==
    /\ lk.pc = "ports" /\ Len(lk.ports) < NumPorts
    /\ \/ \E port \in Assignable({}) : Launch([lk EXCEPT !.ports = Append(@, port)])
       \/ Launch(Fail("KernelConnect"))

\* Faulty variant of WriteFile: the result of fs::write is not looked at.
WriteFileUnchecked ==
    /\ lk.pc = "ports" /\ Len(lk.ports) = NumPorts
    /\ \E id \in Uuids :
        \/ Launch([lk EXCEPT !.pc = "written", !.id = id,
                             !.file = connection_filename(lk.env, id),
                             !.log = Append(@, "write")])
        \/ Launch([lk EXCEPT !.pc = "written", !.id = id])

\* The five ports are known: a kernel id is drawn and fs::write(..).await writes
\* the connection file, or fails.
WriteFile ==
    /\ lk.pc = "ports" /\ Len(lk.ports) = NumPorts
    /\ \E id \in Uuids :
        \/ Launch([lk EXCEPT !.pc = "written", !.id = id,
                             !.file = connection_filename(lk.env, id),
                             !.log = Append(@, "write")])
        \/ Launch([Fail("KernelConnect") EXCEPT !.id = id])

\* spec.argv is checked and every element expanded.
ExpandArgv ==
    /\ lk.pc = "written"
    /\ IF lk.spec = <<>>
       THEN Launch(Fail("KernelConnect"))
       ELSE Launch([lk EXCEPT !.pc = "expanded",
                             !.argv = [i \in 1..Len(lk.spec) |->
                                          replace(lk.spec[i], connection_filename(lk.env, lk.id))],
                             !.log = Append(@, "expand")])

\* Faulty variant of Spawn: a failure is reported as a connection error.
SpawnErrorAsConnect ==
    /\ lk.pc = "expanded"
    /\ \/ Launch([lk EXCEPT !.pc = "spawned", !.child = "running",
                             !.log = Append(@, "spawn")])
       \/ Launch(Fail("KernelConnect"))

\* Command::new(&argv[0]) .. .kill_on_drop(true) .. .spawn()
Spawn ==
    /\ lk.pc = "expanded"
    /\ \/ Launch([lk EXCEPT !.pc = "spawned", !.child = "running",
                             !.log = Append(@, "spawn")])
       \/ Launch(Fail("Subprocess"))

\* Dropping the tokio Child of a command built with kill_on_drop(true) kills a
\* process that is still running.
DropChild(child) == IF child = "running" THEN "killed" ELSE child

\* create_zeromq_connection(..).await?: on an error start returns and the child
\* handle, a local of start, is dropped.
Connect ==
    /\ lk.pc = "spawned"
    /\ \/ Launch([lk EXCEPT !.pc = "started", !.log = Append(@, "connect")])
       \/ Launch([Fail("Zmq") EXCEPT !.child = DropChild(lk.child),
                                     !.log = Append(@, "connect")])

\* The kernel process ends by itself.
ChildExit ==
    /\ lk.child = "running"
    /\ Launch([lk EXCEPT !.child = "exited"])

\* LocalKernel::kill: SIGKILL to the child.
kill ==
    /\ lk.pc = "started"
    /\ lk.child = "running"
    /\ Launch([lk EXCEPT !.child = "killed"])

\* Faulty variant of DropKernel: the child handle is dropped without a kill.
DropKernelDetached ==
    /\ lk.pc = "started"
    /\ Launch([lk EXCEPT !.pc = "dropped"])

\* The LocalKernel is dropped, and its child handle with it.
DropKernel ==
    /\ lk.pc = "started"
    /\ Launch([lk EXCEPT !.pc = "dropped", !.child = DropChild(lk.child)])

(* ---------------------------------------------------------------------- *)
(* Specification of the launch of one local kernel                         *)
(* ---------------------------------------------------------------------- *)

InitLocal ==
    /\ InitConn
    /\ driver = "zmq"
    /\ rc = [r \in 1..MaxRun |-> NoRun]
    /\ cin = NoInput
    /\ cwire = <<>>
    /\ cout = Pending
    /\ hist = NoHist
    /\ body = [c \in Slots |-> NoContent]
    /\ \E env \in RuntimeDirs, spec \in KernelSpecs :
        lk = [NoLaunch EXCEPT !.env = env, !.spec = spec]
    /\ ks = NoListing

NextLocal ==
    \/ start
    \/ get_available_port
    \/ WriteFile
    \/ ExpandArgv
    \/ Spawn
    \/ Connect
    \/ ChildExit
    \/ kill
    \/ DropKernel

SpecLocal == InitLocal /\ [][NextLocal]_vars

(* ---------------------------------------------------------------------- *)
(* Claims about the correlation layer                                      *)
(* ---------------------------------------------------------------------- *)

\* A step in which the driver routes a reply with parent msg_id m to an entry.
RoutedStep(m) == reply_tx_map[m] # 0 /\ reply_tx_map'[m] = 0 /\ pc' = pc

C1Inv ==
    \A c \in Slots :
        /\ ndeliv[c] <= 1
        /\ oneshot[c].st = "value" => oneshot[c].parent = req[c].id
        /\ (PendingAlive(c) /\ oneshot[c].st = "empty") => reply_tx_map[req[c].id] = c

C1Step ==
    /\ \A m \in MsgIds :
        RoutedStep(m) =>
            LET o == reply_tx_map[m] IN
            /\ ReceiverAlive(o) =>
                /\ oneshot'[o].st = "value" /\ oneshot'[o].parent = m
                /\ ndeliv'[o] = ndeliv[o] + 1
            /\ \A c \in Slots \ {o} : oneshot'[c] = oneshot[c] /\ ndeliv'[c] = ndeliv[c]
    /\ \A c \in Slots :
        (oneshot[c].st # "value" /\ oneshot'[c].st = "value") =>
            reply_tx_map[req[c].id] = c /\ reply_tx_map'[req[c].id] = 0

\* C1: with pairwise-distinct msg_ids, a live PendingRequest that has no reply
\* yet owns the entry under its msg_id, so that a reply with that parent msg_id is
\* routed to it; a routed reply reaches the waiter registered under its parent
\* msg_id and no other waiter; the entry is removed in the step that delivers;
\* no waiter ever gets more than one reply.
C1_CorrelationUnique == []C1Inv /\ [][C1Step]_vars

\* A reply has been delivered to call 1 and returned by get_reply while call 2
\* still awaits its own.
C1_Witness ==
    /\ pc[1] = "replied" /\ oneshot[1].parent = 1
    /\ pc[2] = "awaiting" /\ oneshot[2].st = "empty"

\* C4: dropping a PendingRequest that was never awaited removes the entry under
\* its msg_id and changes no other entry.
C4_DropRemovesOwnEntry ==
    [][\A c \in Slots :
        (pc[c] = "pending" /\ pc'[c] = "dropped_early") =>
            /\ reply_tx_map'[req[c].id] = 0
            /\ \A m \in MsgIds \ {req[c].id} : reply_tx_map'[m] = reply_tx_map[m]]_vars

\* Call 1 was dropped without awaiting while the entry of call 2 is in the map.
C4_Witness ==
    /\ pc[1] = "dropped_early" /\ reply_tx_map[1] = 0
    /\ reply_tx_map[2] = 2

C5Inv ==
    /\ \A i \in 1..Len(shell_q) : shell_q[i].by # 0 => shell_q[i].by \in inserted
    /\ \A i \in 1..Len(control_q) : control_q[i].by # 0 => control_q[i].by \in inserted
    /\ \A f \in Futs : fut[f].msg.by # 0 => fut[f].msg.by \in inserted

C5Step ==
    /\ \A m \in MsgIds :
        (reply_tx_map[m] = 0 /\ reply_tx_map'[m] # 0) =>
            \E c \in Slots :
                /\ pc[c] = "idle" /\ pc'[c] = "sending"
                /\ req'[c].id = m /\ reply_tx_map'[m] = c
                /\ shell_q' = shell_q /\ control_q' = control_q
    /\ \A c \in Slots :
        (pc[c] = "sending" /\ pc'[c] = "pending") => c \in inserted
    /\ \A m \in MsgIds :
        (reply_tx_map[m] # 0 /\ reply_tx_map'[m] = 0) =>
            LET o == reply_tx_map[m] IN
            \/ PendingAlive(o) /\ pc'[o] \in Dropped /\ req[o].id = m
            \/ /\ pc' = pc
               /\ ReceiverAlive(o) => oneshot'[o].st = "value" /\ oneshot'[o].parent = m

\* C5: an entry appears only in the first half of call_shell/call_control, before
\* the message is pushed on the send queue; it disappears only when the driver
\* routes a reply with that parent msg_id or when its PendingRequest is dropped;
\* every message in a send queue or in the driver's hands had its entry inserted
\* before.
C5_EntryLifetime == []C5Inv /\ [][C5Step]_vars

\* The driver holds the message of call 1, whose entry is in the map, while the
\* entry of call 2 has been removed by the delivery of its reply.
C5_Witness ==
    /\ \E f \in Futs : fut[f].msg.by = 1
    /\ reply_tx_map[1] = 1
    /\ oneshot[2].st = "value" /\ reply_tx_map[2] = 0

(* ---------------------------------------------------------------------- *)
(* Claims about calls against close()                                      *)
(* ---------------------------------------------------------------------- *)

\* C3: the correlation map holds no entry whose waiter (the one-shot Receiver,
\* inside the call future or the PendingRequest) has been dropped.
C3_NoStaleEntry ==
    \A m \in MsgIds : reply_tx_map[m] # 0 => ReceiverAlive(reply_tx_map[m])

C8Step ==
    closed =>
        /\ \A c \in Slots :
            (pc[c] = "sending" /\ pc'[c] \notin {"sending", "abandoned"}) => pc'[c] = "failed"
        /\ Len(shell_q') <= Len(shell_q)
        /\ Len(control_q') <= Len(control_q)

C8Inv ==
    \A c \in at_close : pc[c] \in {"sending", "failed", "abandoned"}

\* C8: once close() has run, a call_shell/call_control that returns returns
\* KernelDisconnect and no message enters a send queue any more (so none is
\* handed to the transport); a call that was suspended on a full send queue when
\* close() ran never returns a PendingRequest.
C8_CallsFailAfterClose == []C8Inv /\ [][C8Step]_vars

\* A call that was suspended on a full send queue when close() ran has returned
\* KernelDisconnect, and so has a call that started after close().
C8_Witness ==
    /\ closed
    /\ \E c \in at_close : pc[c] = "failed"
    /\ \E c \in Slots \ at_close : pc[c] = "failed"

(* ---------------------------------------------------------------------- *)
(* Claims about recv_iopub and run_cell                                    *)
(* ---------------------------------------------------------------------- *)

\* A step in which the recv_iopub call of a reader task returns.
RecvStep(r) ==
    /\ rc[r].pc = "reading"
    /\ rc'[r].pc # "reading" \/ Len(iopub_q') < Len(iopub_q)

\* C7: after close(), every recv_iopub call that returns returns
\* KernelDisconnect.
C7_RecvFailsAfterClose ==
    [][\A r \in Runs : (closed /\ RecvStep(r)) => RecvIopub = "disconnect"]_vars

\* The end of the event sequence of run r: the reader task is over.
Ended(r) == rc[r].pc \in {"exiting", "ended"}

\* An IOPub status message with execution_state=idle.
IdleStatus(msg) == msg.kind = "status" /\ msg.ok /\ msg.state = "idle"

\* An IOPub message of a kind run_cell translates, with content that does not
\* deserialize into the type of that kind.
Malformed(msg) ==
    /\ msg.kind \in {"status", "stream", "execute_result", "display_data",
                     "update_display_data", "clear_output", "error"}
    /\ ~msg.ok

C9Inv ==
    \A r \in Runs :
        /\ Ended(r) <=> (rc[r].status = "idle" \/ rc[r].cause \in {"recv_error", "deserialize"})
        /\ rc[r].cause = "idle" <=> rc[r].status = "idle"

C9Step ==
    \A r \in Runs :
        RecvStep(r) =>
            IF iopub_q # <<>>
            THEN /\ Ended(r)' <=> (IdleStatus(Head(iopub_q)) \/ Malformed(Head(iopub_q)))
                 /\ Malformed(Head(iopub_q)) <=> rc'[r].cause = "deserialize"
            ELSE IopubClosed /\ rc'[r].cause = "recv_error"

C10_CompletesOnlyOnOwnIdle ==
    \A r \in Runs : rc[r].cause = "idle" => rc[r].endparent = req[rc[r].slot].id

C10Inv ==
    \A r \in Runs :
        (Ended(r) /\ rc[r].cause \notin {"recv_error", "deserialize"}) =>
            rc[r].cause = "idle" /\ rc[r].status = "idle"

C10Step ==
    \A r \in Runs :
        (rc[r].cause # "idle" /\ rc'[r].cause = "idle") =>
            /\ rc[r].pc = "reading"
            /\ iopub_q # <<>>
            /\ IdleStatus(Head(iopub_q))
            /\ rc'[r].endparent = Head(iopub_q).parent

\* C10 (amended): run_cell completes only in the step in which its reader task
\* receives an idle status, whatever the parent_header of that message.
C10_CompletesOnlyOnIdle == []C10Inv /\ [][C10Step]_vars

\* A run has completed on an idle status that answers another request.
C10_Witness ==
    \E r \in Runs :
        /\ rc[r].pc = "ended" /\ rc[r].cause = "idle"
        /\ rc[r].endparent # req[rc[r].slot].id

(* ---------------------------------------------------------------------- *)
(* Claims about the events of run_cell                                     *)
(* ---------------------------------------------------------------------- *)

\* The events the translation table gives for a message: one for each of the six
\* output kinds, none for status, execute_input and other kinds.
C11Events(msg) ==
    IF msg.kind = "stream" /\ msg.name = "stdout" THEN {<<"stdout">>}
    ELSE IF msg.kind = "stream" /\ msg.name = "stderr" THEN {<<"stderr">>}
    ELSE IF msg.kind = "stream" THEN {<<"stdout">>, <<"stderr">>}
    ELSE IF msg.kind \in {"execute_result", "display_data", "update_display_data",
                          "clear_output", "error"} THEN {<<msg.kind>>}
    ELSE {<<>>}

C11Step ==
    \A r \in Runs :
        /\ (RecvStep(r) /\ iopub_q # <<>> /\ ~Malformed(Head(iopub_q))) =>
                \E ev \in C11Events(Head(iopub_q)) : rc'[r].events = rc[r].events \o ev
        /\ (Ended(r) /\ rc[r].cause = "idle") => Len(rc'[r].events) <= Len(rc[r].events)
        /\ rc[r].pc # "reading" => rc'[r].ndisc # rc[r].ndisc \/ Len(rc'[r].events) <= Len(rc[r].events)

C12Inv ==
    \A r \in Runs :
        /\ rc[r].ndisc <= 1
        /\ rc[r].cause = "idle" => rc[r].ndisc = 0
        /\ (rc[r].pc = "ended" /\ rc[r].cause = "recv_error") => rc[r].ndisc = 1
        /\ rc[r].pc # "ended" => rc[r].ndisc = 0

C12Step ==
    \A r \in Runs :
        /\ rc'[r].ndisc # rc[r].ndisc =>
                /\ rc'[r].events = Append(rc[r].events, "disconnect")
                /\ rc'[r].pc = "ended"
        /\ rc[r].pc = "ended" => Len(rc'[r].events) <= Len(rc[r].events)
        /\ (Len(rc'[r].events) > Len(rc[r].events) /\ rc'[r].ndisc = rc[r].ndisc) =>
                rc'[r].events[Len(rc'[r].events)] # "disconnect"

\* C12: a run whose recv_iopub fails before an idle status sends exactly one
\* Disconnect event, as the last event of its sequence; a run that observes the
\* idle status sends none.
C12_DisconnectIsLast ==
    /\ []C12Inv
    /\ [][C12Step]_vars
    /\ \A r \in 1..MaxRun : (rc[r].cause = "recv_error") ~> (rc[r].ndisc = 1)

\* recv_iopub has failed after an output was translated: the sequence is that
\* output followed by the Disconnect event.
C12_Witness ==
    \E r \in Runs :
        /\ rc[r].pc = "ended" /\ rc[r].cause = "recv_error"
        /\ rc[r].events = <<"stdout", "disconnect">>

(* ---------------------------------------------------------------------- *)
(* Claims about cancellation                                               *)
(* ---------------------------------------------------------------------- *)

\* C2: once the signal is cancelled (close() was called or the last clone of the
\* connection was dropped), a PendingRequest that is awaiting get_reply and has
\* no reply eventually returns KernelDisconnect, unless its reply still arrives.
C2_AwaitingDisconnects ==
    \A c \in Slots :
        (signal /\ pc[c] = "awaiting" /\ oneshot[c].st = "empty")
            ~> (pc[c] = "disconnected" \/ oneshot[c].st = "value")

\* C6: once the signal is cancelled (close() was called or the last clone of the
\* connection was dropped), the driver task ends, wherever its loops are
\* suspended; when it has ended none of its loops is left.
C6_DriverTaskTerminates ==
    /\ signal ~> (task = "exited")
    /\ [](task = "exited" => \A f \in Futs : fut[f].pc \in {"absent", "done"})
    /\ [](signal <=> (closed \/ clones = 0))

\* The task has ended while its IOPub loop was suspended on the full IOPub queue
\* and a send loop was waiting on its queue and the transport.
C6_Witness ==
    /\ task = "exited"
    /\ at_exit[IopubOwner] = "pushing"
    /\ Len(iopub_q) = IopubCap
    /\ \E f \in Futs : at_exit[f] = "select"

(* ---------------------------------------------------------------------- *)
(* Claims about the payload codecs                                         *)
(* ---------------------------------------------------------------------- *)

\* The (0-based) k-th entry of the offset table of a WebSocket payload.
TableEntry(payload, k) == Word(payload, 8 * (k + 1))

\* C16: to_zmq_payload(m, k) is the delimiter, the HMAC under k of header, parent
\* header (null when missing), metadata {}, content and buffers concatenated in
\* that order, then these frames themselves; and from_zmq_payload gives m back
\* from it, buffers in the same order.
C16_ZmqRoundTrip ==
    cin.codec = "zmq" =>
        /\ cwire # <<>> =>
              LET m == cin.msg
                  parent == IF m.parent_header = NoHeader THEN NullJson
                            ELSE HeaderJson(m.parent_header)
              IN  cwire = <<Delim,
                            Hmac(cin.key, HeaderJson(m.header) \o parent \o <<123, 125>>
                                          \o ValueJson(m.content) \o Concat(m.buffers)),
                            HeaderJson(m.header), parent, <<123, 125>>,
                            ValueJson(m.content)>> \o m.buffers
        /\ cout # Pending => cout.res = "some" /\ cout.msg = cin.msg

\* C17: from_ws_payload(to_ws_payload(m, c)) = (m, c), and in the payload the
\* count is 5 + the number of buffers, the first offset is 8 * (count + 1), and
\* the offsets never decrease nor exceed the payload length.
C17_WsRoundTrip ==
    cin.codec = "ws" =>
        /\ cwire # <<>> =>
              LET n == Word(cwire, 0) IN
              /\ n = 5 + Len(cin.msg.buffers)
              /\ TableEntry(cwire, 0) = 8 * (n + 1)
              /\ \A k \in 0..(n - 2) : TableEntry(cwire, k) <= TableEntry(cwire, k + 1)
              /\ \A k \in 0..(n - 1) : TableEntry(cwire, k) <= Len(cwire)
        /\ cout # Pending => cout = Some(cin.msg, cin.channel)

(* ---------------------------------------------------------------------- *)
(* Claims about the payloads the drivers receive                           *)
(* ---------------------------------------------------------------------- *)

\* A receive branch has taken a payload from the transport.
InboundStep == hist' # hist

\* A reply reaches a waiter, or a message is pushed onto the IOPub queue.
DeliveryStep ==
    \/ \E c \in Slots : oneshot[c].st # "value" /\ oneshot'[c].st = "value"
    \/ Len(iopub_q') > Len(iopub_q)

\* The frame after the delimiter is the HMAC, under the connection's key, of the
\* frames that follow it.
SignatureValid(payload) ==
    \E d \in 1..(Len(payload) - 1) :
        /\ payload[d] = Delim
        /\ payload[d + 1] = Hmac(SigningKey, Concat(SubSeq(payload, d + 2, Len(payload))))

\* C13: an inbound ZeroMQ message whose signature frame is not the HMAC of its
\* header, parent header, metadata, content and buffer frames under the
\* connection's key is never delivered to a waiter nor pushed onto the IOPub
\* queue.
C13_BadSignatureDropped ==
    [][(driver = "zmq" /\ DeliveryStep) => SignatureValid(hist'.inbound)]_vars

\* A multipart message without delimiter, with fewer than five frames after it,
\* or with a header, parent header or content frame that is not JSON.
ZmqMalformed(payload) ==
    LET D == {i \in 1..Len(payload) : payload[i] = Delim} IN
    \/ D = {}
    \/ \E d \in D :
        /\ \A j \in D : d <= j
        /\ \/ Len(payload) - d < 5
           \/ ParseHeader(payload[d + 2]) = BadHeader
           \/ ParseParent(payload[d + 3]) = BadHeader
           \/ ParseValue(payload[d + 5]) = -1

\* C14: a malformed inbound ZeroMQ message is dropped and the driver keeps
\* running.
C14_MalformedDropped ==
    [][(driver = "zmq" /\ InboundStep /\ ZmqMalformed(hist'.inbound)) =>
            /\ task' = "running"
            /\ ~DeliveryStep]_vars

\* C15: whatever binary frame the WebSocket receive loop is given,
\* from_ws_payload does not panic: the loop is still there for the next frame.
C15_WsNeverPanics ==
    [][(driver = "ws" /\ InboundStep) =>
            task' = "running" /\ fut'["receive"].pc = "recv"]_vars

(* ---------------------------------------------------------------------- *)
(* Claims about the order and the capacity of the queues                   *)
(* ---------------------------------------------------------------------- *)

\* s is an initial segment of t.
IsPrefix(s, t) == Len(s) <= Len(t) /\ s = SubSeq(t, 1, Len(s))

\* C18: on each of the two channels, the messages handed to the transport are,
\* in the same order, the first of the messages the calls enqueued on that
\* channel, and none is handed over twice; the two channels are independent.
C18_SendOrder ==
    \A ch \in Chans :
        /\ IsPrefix(hist.wire[ch], hist.enq[ch])
        /\ \A i, j \in 1..Len(hist.wire[ch]) : i # j => hist.wire[ch][i] # hist.wire[ch][j]

\* Two messages of one channel have been handed over, the one of the second call
\* first because it was enqueued first.
C18_Witness ==
    \E ch \in Chans : Len(hist.wire[ch]) = 2 /\ hist.wire[ch][1].by = 2

\* C19: the IOPub messages returned by recv_iopub and try_recv_iopub, followed
\* by the ones still queued, are the first of the messages the driver received,
\* in the order it received them; so none is returned twice.
C19_IopubOrder ==
    /\ IsPrefix(hist.ret \o iopub_q, hist.pub)
    /\ ~closed => hist.ret \o iopub_q = hist.pub

\* Two different messages have been returned and a third one was received.
C19_Witness ==
    /\ Len(hist.ret) = 2 /\ hist.ret[1] # hist.ret[2]
    /\ Len(hist.pub) = 3

C20Step ==
    /\ \A c \in Slots :
            Suspended(c) =>
                \/ pc'[c] = "sending"
                \/ pc'[c] = "failed" /\ SendClosed(req[c].chan)
    /\ \A c \in Slots :
            (pc[c] = "sending" /\ pc'[c] = "pending") =>
                Len(Queue(req[c].chan)) < Cap(req[c].chan)
    /\ \A q \in {<<shell_q, shell_q'>>, <<control_q, control_q'>>} :
            \/ q[2] = q[1]
            \/ q[1] # <<>> /\ q[2] = Tail(q[1])
            \/ Len(q[2]) = Len(q[1]) + 1 /\ IsPrefix(q[1], q[2])

\* C20: the shell and the control send queue never hold more than 8 messages,
\* the IOPub queue never more than 64; a call whose queue is full stays
\* suspended until there is room or the queue is closed, and a queued message
\* leaves its queue only at the head, taken by the driver.
C20_QueueBounds ==
    /\ [](Len(shell_q) <= 8 /\ Len(control_q) <= 8 /\ Len(iopub_q) <= 64)
    /\ [][C20Step]_vars

\* A call is suspended on its full send queue while the IOPub loop is suspended
\* on the full IOPub queue.
C20_Witness ==
    /\ \E c \in Slots : Suspended(c) /\ Len(Queue(req[c].chan)) = 8
    /\ Len(iopub_q) = 64 /\ fut[IopubOwner].pc = "pushing"

(* ---------------------------------------------------------------------- *)
(* Claims about the ownership of the connection and the channel of a reply *)
(* ---------------------------------------------------------------------- *)

\* C21: the cancellation signal is not fired while a clone of the connection is
\* alive and close() has not been called, and it is fired once the last clone
\* has been dropped.
C21_SignalOnLastDrop ==
    /\ (clones > 0 /\ ~closed) => ~signal
    /\ clones = 0 => signal

\* The last clone has been dropped without close(): the signal is fired and the
\* driver task has not yet observed it.
C21_Witness == clones = 0 /\ ~closed /\ signal /\ task = "running"

\* C22: a reply that resolved the PendingRequest of a call was received on the
\* channel the call was made on (shell for call_shell, control for
\* call_control).
C22_ReplyOnSameChannel ==
    \A c \in Slots : oneshot[c].st = "value" => oneshot[c].chan = req[c].chan

(* ---------------------------------------------------------------------- *)
(* Claims about kernel_info and replies that do not fit                    *)
(* ---------------------------------------------------------------------- *)

\* The requests the kernel_info of call c has put on the queue of ch.
Requests(c, ch) == SelectSeq(hist.enq[ch], LAMBDA msg : msg.by = c)

\* A reply reached the kernel_info of call c.
Answered(c) == InfoReturned(c) /\ pc[c] # "failed" /\ oneshot[c].st = "value"

\* What every kernel_info that has returned satisfies, whatever the content of
\* the reply: one request at most, on the shell channel; the reply is the one to
\* its own request; ok with fitting fields gives that info; abort gives
\* KernelDisconnect.
C23Common(c) ==
    /\ Len(Requests(c, "shell")) = (IF pc[c] = "failed" THEN 0 ELSE 1)
    /\ Requests(c, "control") = <<>>
    /\ \A i \in 1..Len(Requests(c, "shell")) : Requests(c, "shell")[i].id = req[c].id
    /\ Answered(c) => oneshot[c].parent = req[c].id
    /\ kernel_info(c).tag = "Ok" =>
            Answered(c) /\ body[c].status = "ok" /\ kernel_info(c).value = body[c].value
    /\ (Answered(c) /\ body[c].status = "ok" /\ body[c].fits) =>
            kernel_info(c) = Typed("Ok", body[c].value)
    /\ (Answered(c) /\ body[c].status \in {"abort", "aborted"}) =>
            kernel_info(c).tag = "KernelDisconnect"

\* C23 as stated: kernel_info sends exactly one request on the shell channel,
\* returns the info of the reply to that request when its status is ok, and
\* returns KernelDisconnect whenever the reply's status is error or abort.
C23_KernelInfoResult ==
    \A c \in Slots :
        InfoReturned(c) =>
            /\ C23Common(c)
            /\ (Answered(c) /\ body[c].status = "error") =>
                    kernel_info(c).tag = "KernelDisconnect"

\* C23, amended: as above, but a reply of status error gives KernelDisconnect
\* only when its other fields fit ErrorReply; when the fields of an ok or error
\* reply do not fit, kernel_info returns the DeserializeMessage error of
\* get_reply.
C23_KernelInfoResultTyped ==
    \A c \in Slots :
        InfoReturned(c) =>
            /\ C23Common(c)
            /\ (Answered(c) /\ body[c].status = "error" /\ body[c].fits) =>
                    kernel_info(c).tag = "KernelDisconnect"
            /\ (Answered(c) /\ body[c].status \in {"ok", "error"} /\ ~body[c].fits) =>
                    kernel_info(c).tag = "DeserializeMessage"

\* One kernel_info has returned the info of its ok reply, another one
\* KernelDisconnect for an error reply.
C23_Witness ==
    \E c, d \in Slots :
        /\ Answered(c) /\ kernel_info(c) = Typed("Ok", 2)
        /\ Answered(d) /\ body[d] = Content("error", TRUE, 0)
        /\ kernel_info(d).tag = "KernelDisconnect"

\* get_reply of call c has failed with DeserializeMessage.
Unfit(c) == Answered(c) /\ GetReplyResult(c).tag = "DeserializeMessage"

C24Step ==
    \A c \in Slots :
        (pc[c] = "awaiting" /\ pc'[c] = "replied"
            /\ into_typed(body[c]).tag = "DeserializeMessage") =>
                /\ \A b \in Slots \ {c} : pc'[b] = pc[b]
                /\ UNCHANGED <<driver, req, reply_tx_map, oneshot, shell_q, control_q,
                               iopub_q, hand, closed, signal, clones, fut, task, sock_ok>>

\* C24: a get_reply that fails with DeserializeMessage changes nothing of the
\* connection but the state of its own call (queues, map, signal, driver loops
\* and task are as they were), and the map holds no entry for its request.
C24_UnfitReplyHarmless ==
    /\ [](\A c \in Slots : Unfit(c) => reply_tx_map[req[c].id] = 0)
    /\ [][C24Step]_vars

\* After the get_reply of one call failed with DeserializeMessage, a later call
\* on the same connection has received its reply and returned Ok.
C24_Witness ==
    /\ Unfit(1) /\ pc[1] = "dropped"
    /\ Answered(2) /\ kernel_info(2).tag = "Ok"
    /\ ~closed /\ task = "running" /\ fut[RxOwner("shell")].pc # "done"

(* ---------------------------------------------------------------------- *)
(* Claims about try_recv_iopub                                             *)
(* ---------------------------------------------------------------------- *)

C25Step ==
    hist'.ret # hist.ret =>
        /\ iopub_q # <<>>
        /\ hist'.ret = Append(hist.ret, Head(iopub_q))
        /\ iopub_q' = Tail(iopub_q)

\* C25: in every state (open, closed by close(), driver loop or task ended)
\* try_recv_iopub gives a message or 'absent', never an error: a message exactly
\* when the queue is not empty, and then it can return at once with the oldest
\* queued message.
C25_TryRecvNeverFails ==
    /\ [](/\ TryRecvIopub \in {"message", "absent"}
          /\ TryRecvIopub = "message" <=> iopub_q # <<>>
          /\ (CallerClones > 0 /\ iopub_q # <<>>) => ENABLED (try_recv_iopub /\ Returned))
    /\ [][C25Step]_vars

\* The connection was closed and the driver task has ended while a message is
\* queued, after an earlier message was returned.
C25_Witness ==
    /\ closed /\ task = "exited"
    /\ iopub_q # <<>> /\ hist.ret # <<>>
    /\ iopub_try_recv = "Ok"

(* ---------------------------------------------------------------------- *)
(* Claims about LocalKernel                                                *)
(* ---------------------------------------------------------------------- *)

\* The place of event e in the log of the launch, 0 when it has not happened.
At(e) ==
    IF \E i \in 1..Len(lk.log) : lk.log[i] = e
    THEN CHOOSE i \in 1..Len(lk.log) : lk.log[i] = e
    ELSE 0

\* C26: the connection file is written before argv is expanded and before the
\* process is spawned, the process is spawned before the sockets are connected,
\* and no process exists unless the file was written.
C26_StartOrder ==
    /\ At("expand") # 0 => (At("write") # 0 /\ At("write") < At("expand"))
    /\ At("spawn") # 0 => (At("write") # 0 /\ At("write") < At("spawn"))
    /\ At("connect") # 0 => (At("spawn") # 0 /\ At("spawn") < At("connect"))
    /\ lk.argv # <<>> => lk.file # <<>>
    /\ lk.child # "none" => lk.file # <<>>
    /\ (lk.pc # "idle" /\ lk.pc # "ports" /\ At("write") = 0) =>
            (lk.pc = "failed" /\ lk.child = "none")

\* The kernel has been started: file written, argv expanded, process spawned,
\* sockets connected, in this order.
C26_Witness ==
    lk.pc = "started" /\ lk.log = <<"write", "expand", "spawn", "connect">>

\* C27: the five ports put into the connection descriptor are pairwise distinct.
C27_PortsDistinct ==
    Len(lk.ports) = NumPorts =>
        \A i, j \in 1..NumPorts : i # j => lk.ports[i] # lk.ports[j]

\* The index of the last separator of a path, 0 when it has none.
LastSep(path) ==
    IF \E i \in 1..Len(path) : path[i] = "/"
    THEN CHOOSE i \in 1..Len(path) :
             path[i] = "/" /\ \A j \in (i + 1)..Len(path) : path[j] # "/"
    ELSE 0

\* The name of the file a path leads to, and the directory that holds it.
FileName(path) == SubSeq(path, LastSep(path) + 1, Len(path))
DirName(path) == SubSeq(path, 1, LastSep(path) - 1)

\* A directory written without a trailing separator.
Directory(path) ==
    IF path # <<>> /\ path[Len(path)] = "/" THEN SubSeq(path, 1, Len(path) - 1) ELSE path

\* C28: the connection file is the file jute-<uuid>.json inside the runtime
\* directory, and in the expanded argv every occurrence of {connection_file}
\* stands replaced by exactly the path of that file.
C28_ConnectionFilePath ==
    /\ lk.file # <<>> =>
            /\ FileName(lk.file) = <<"jute-", lk.id, ".json">>
            /\ DirName(lk.file) = Directory(runtime_dir(lk.env))
    /\ lk.argv # <<>> =>
            /\ Len(lk.argv) = Len(lk.spec)
            /\ \A i \in 1..Len(lk.argv) :
                    /\ lk.argv[i] = replace(lk.spec[i], lk.file)
                    /\ \A k \in 1..Len(lk.argv[i]) : lk.argv[i][k] # Placeholder

\* C29: a start that failed before the file was written (port allocation, the
\* write itself) failed with KernelConnect, one that failed at the spawn with
\* Subprocess; in both cases no process was created, and after any failed start
\* no kernel was returned and no process is running.
C29_StartErrors ==
    lk.pc = "failed" =>
        /\ At("write") = 0 => (lk.err = "KernelConnect" /\ lk.child = "none")
        /\ (At("expand") # 0 /\ At("spawn") = 0) =>
                (lk.err = "Subprocess" /\ lk.child = "none")
        /\ lk.child # "running"

\* The spawn failed: start returned a Subprocess error.
C29_Witness ==
    /\ lk.pc = "failed" /\ lk.err = "Subprocess"
    /\ lk.log = <<"write", "expand">>

\* C30: once the LocalKernel has been dropped, or start has failed, the kernel
\* process is not running.
C30_KillOnDrop ==
    lk.pc \in {"dropped", "failed"} => lk.child # "running"

\* A LocalKernel was dropped without kill while its process was running: the
\* process has been killed.
C30_Witness == lk.pc = "dropped" /\ lk.child = "killed"

(* ---------------------------------------------------------------------- *)
(* Claims about the message-type enumeration and the reply envelope        *)
(* ---------------------------------------------------------------------- *)

\* C32: a type string that is none of the declared kinds deserializes to Other
\* carrying that string and serializes back to the same string, and for every
\* value of KernelMessageType, Other of any string included, serializing and
\* then deserializing gives the same value.
C32_TypeRoundTrip ==
    LET t == cin.msg.header.msg_type IN
    /\ t.name \notin KnownTypes =>
            /\ TypeOfName(t.name) = Other(t.name)
            /\ TypeText(TypeOfName(t.name)) = <<34, t.name, 34>>
    /\ TypeOfName(TypeText(t)[2]) = t

\* C33: the variant of a deserialized reply body is the one its status field
\* names: ok gives Ok and error gives Error (whenever the body deserializes, and
\* it does when its other fields fit), abort and aborted give the same Abort,
\* and no other status gives a variant.
C33_ReplyTag ==
    \A c \in Slots :
        Answered(c) =>
            LET b == body[c]
                r == GetReplyResult(c)
            IN  /\ r.tag = "Ok" <=> (b.status = "ok" /\ b.fits)
                /\ r.tag = "Error" <=> (b.status = "error" /\ b.fits)
                /\ r.tag = "Abort" <=> b.status \in {"abort", "aborted"}
                /\ r.tag = "Ok" => r.value = b.value
                /\ b.status \in {"abort", "aborted"} => r = into_typed(Content("abort", b.fits, b.value))
                /\ r.tag \in {"Ok", "Error", "Abort", "DeserializeMessage"}

\* get_reply has returned Abort for a body whose status is "aborted".
C33_Witness ==
    \E c \in Slots :
        /\ Answered(c) /\ body[c].status = "aborted"
        /\ GetReplyResult(c) = Typed("Abort", 0)

(* ---------------------------------------------------------------------- *)
(* Claims about replies under IOPub back-pressure                          *)
(* ---------------------------------------------------------------------- *)

\* The driver reads the reply to call c from the transport and hands it to the
\* waiter of c.
ReplyDelivered(c) ==
    /\ \/ ZmqReply(req[c].chan, req[c].id)
       \/ WsReply(req[c].chan, req[c].id)
    /\ UNCHANGED restVars

\* Call c waits for its reply, the kernel's reply is on the transport, and the
\* loop that reads the replies of that channel is not in the middle of sending a
\* request of its own.
ReplyWaiting(c) ==
    /\ pc[c] \in {"pending", "awaiting"}
    /\ Waiter(req[c].id) = c
    /\ task = "running" /\ sock_ok
    /\ driver = "zmq" => fut[req[c].chan].pc = "select"

\* C34: while the IOPub queue is full and nobody reads it, the reply to a
\* waiting call can still be delivered, with either driver.
C34_RepliesUnderPressure ==
    \A c \in Slots :
        (IopubFull /\ ReplyWaiting(c)) => ENABLED ReplyDelivered(c)

(* ---------------------------------------------------------------------- *)
(* Claims about run_cell and the messages around it                        *)
(* ---------------------------------------------------------------------- *)

\* A run_cell that has not finished its drain has made no call and sent no
\* event; once it is past the drain none of the messages that were in the IOPub
\* queue at its invocation is left in it.
C36Inv ==
    \A r \in Runs :
        /\ rc[r].stale <= Len(iopub_q)
        /\ rc[r].pc \in {"idle", "drain"} => (rc[r].slot = 0 /\ rc[r].events = <<>>)
        /\ rc[r].pc \notin {"idle", "drain"} => rc[r].stale = 0

\* The drain is left only with an empty queue, and the reader never takes a
\* message that was in the queue when its run_cell was invoked.
C36Step ==
    \A r \in Runs :
        /\ (rc[r].pc = "drain" /\ rc'[r].pc # "drain") => iopub_q = <<>>
        /\ (rc[r].pc = "reading" /\ rc'[r] # rc[r] /\ iopub_q # <<>>
                /\ iopub_q' = Tail(iopub_q)) => rc[r].stale = 0

\* C36: no IOPub message that was in the queue when run_cell was invoked is
\* translated into an event of that run: the queue is emptied by the drain
\* before the execute_request is enqueued.
C36_DrainBeforeRequest == []C36Inv /\ [][C36Step]_vars

\* The reader of a run_cell that found a message in the queue has sent an
\* event.
C36_Witness ==
    \E r \in Runs : rc[r].pc = "reading" /\ rc[r].found /\ rc[r].events # <<>>

\* run_cell has returned Ok: the reader task is spawned or about to be.
RunReturned(r) == rc[r].pc \in {"spawn", "reading", "exiting", "ended"}

\* Once run_cell has returned Ok its PendingRequest is gone, no entry of the
\* correlation map is its own, and nobody ever waited on its request.
C37Inv ==
    \A r \in Runs :
        /\ RunReturned(r) =>
                /\ pc[rc[r].slot] \in Dropped
                /\ Waiter(req[rc[r].slot].id) = 0
                /\ \A m \in MsgIds : reply_tx_map[m] # rc[r].slot
        /\ rc[r].slot # 0 => pc[rc[r].slot] \notin {"awaiting", "replied", "disconnected"}

\* After the return no step, the arrival of the execute_reply included, changes
\* the one-shot channel of the request, puts an entry under its msg_id or counts
\* as a delivery.
C37Step ==
    \A r \in Runs :
        RunReturned(r) =>
            /\ oneshot'[rc[r].slot] = oneshot[rc[r].slot]
            /\ ndeliv'[rc[r].slot] = ndeliv[rc[r].slot]
            /\ reply_tx_map'[req[rc[r].slot].id] = reply_tx_map[req[rc[r].slot].id]

\* C37: after run_cell has returned successfully the correlation map holds no
\* entry for its execute_request, and the execute_reply that arrives on the shell
\* channel is discarded: no waiter is given it.
C37_ExecuteReplyDiscarded == []C37Inv /\ [][C37Step]_vars

\* The execute_reply arrived after run_cell had returned, and was discarded.
C37_Witness ==
    \E r \in Runs :
        /\ RunReturned(r)
        /\ hist.inbound = <<req[rc[r].slot].id>>
        /\ ndeliv[rc[r].slot] = 0
        /\ oneshot[rc[r].slot].st # "value"

\* C38: while the reader task of a run_cell is running and close() has not been
\* called, the signal is not fired and the driver task runs, however many clones
\* the caller has dropped; once no clone is left, the reader's included, the
\* signal is fired.
C38_ReaderHoldsClone ==
    /\ (Readers # {} /\ ~closed) =>
            /\ clones >= Cardinality(Readers)
            /\ ~signal
            /\ task = "running"
    /\ clones = 0 => signal

\* The caller has dropped every clone it held and the reader task is still
\* reading: the signal is not fired and the driver runs.
C38_Witness ==
    /\ CallerClones = 0 /\ ~closed
    /\ \E r \in Runs : rc[r].pc = "reading"
    /\ ~signal /\ task = "running"

(* ---------------------------------------------------------------------- *)
(* Claims about several readers of IOPub                                   *)
(* ---------------------------------------------------------------------- *)

\* The messages clone k was given by recv_iopub and try_recv_iopub.
Got(k) == {hist.ret[i] : i \in {j \in 1..Len(hist.ret) : hist.by[j] = k}}

\* C39: of the (different) messages the driver pushed, none is returned by two
\* calls of recv_iopub / try_recv_iopub, of one clone or of two: a message that
\* was returned is no longer queued, and no two clones were given the same one.
C39_OneReaderPerMessage ==
    /\ Len(hist.by) = Len(hist.ret)
    /\ \A i, j \in 1..Len(hist.ret) : i # j => hist.ret[i] # hist.ret[j]
    /\ \A k, l \in 1..MaxClones : k # l => Got(k) \cap Got(l) = {}
    /\ Range(hist.ret) \cap Range(iopub_q) = {}
    /\ Range(hist.ret) \cup Range(iopub_q) \subseteq Range(hist.pub)
    /\ ~closed => Range(hist.ret) \cup Range(iopub_q) = Range(hist.pub)

\* Two clones have each been given a message, a third message is queued.
C39_Witness ==
    /\ Got(1) # {} /\ Got(2) # {}
    /\ iopub_q # <<>>

(* ---------------------------------------------------------------------- *)
(* Claims about PendingRequests of one msg_id                              *)
(* ---------------------------------------------------------------------- *)

\* The PendingRequest of call c is dropped in this step.
DropStep(c) == PendingAlive(c) /\ pc'[c] \in Dropped

\* C40: the drop of one PendingRequest leaves the entry and the one-shot channel
\* of every other live PendingRequest as they are, whatever the msg_ids of the
\* two: the other's get_reply does not fail because of it.
C40_DropLeavesOthers ==
    [][\A c, d \in Slots :
        (c # d /\ DropStep(c) /\ PendingAlive(d)) =>
            /\ \A m \in MsgIds : reply_tx_map[m] = d => reply_tx_map'[m] = d
            /\ oneshot'[d] = oneshot[d]]_vars

(* ---------------------------------------------------------------------- *)
(* Claims about overlapping run_cell invocations                           *)
(* ---------------------------------------------------------------------- *)

\* C35: with one idle status published per execute_request, the event sequence
\* of every run_cell that was invoked eventually terminates, however the
\* invocations overlap.
C35_OverlappingRunsTerminate ==
    \A r \in 1..(MaxRun + 1) : (rc[r].pc # "idle") ~> (rc[r].pc \in {"ended", "failed"})

\* ---------------------------------------------------------------------------
\* environment: the kernel-spec search path and list_kernels (unix build)
\* ---------------------------------------------------------------------------

\* An environment variable that is not set, and one set to val.
Unset == [set |-> FALSE, val |-> <<>>]

Set(val) == [set |-> TRUE, val |-> val]

\* str::split on the path separator ":": the pieces between the separators;
\* a string without a separator, the empty one included, is one piece.
RECURSIVE split(_)
split(s) ==
    IF \E i \in 1..Len(s) : s[i] = ":"
    THEN LET i == CHOOSE j \in 1..Len(s) :
                      s[j] = ":" /\ \A k \in 1..(j - 1) : s[k] # ":"
         IN  <<SubSeq(s, 1, i - 1)>> \o split(SubSeq(s, i + 1, Len(s)))
    ELSE <<s>>

\* Path::join with a relative component: the empty path gives the component.
join(path, name) ==
    IF path = <<>> THEN <<name>> ELSE path \o <<"/", name>>

\* data_search_paths: the directories pushed onto dirs, in the order of the pushes.
data_search_paths(env, prefix) ==
    (IF env.jupyter_path.set THEN split(env.jupyter_path.val) ELSE <<>>)
    \o (IF env.jupyter_data_dir.set THEN <<env.jupyter_data_dir.val>>
        ELSE IF env.xdg_data_home.set THEN <<env.xdg_data_home.val \o <<"/jupyter">>>>
        ELSE <<<<"$HOME", "/.local/share/jupyter">>>>)
    \o (IF prefix.set THEN <<prefix.val \o <<"/share/jupyter">>>> ELSE <<>>)
    \o << <<"/usr/share/jupyter">>, <<"/usr/local/share/jupyter">> >>

\* What fs::read_dir gives for a kernels directory that cannot be read.
NoDir == [ok |-> FALSE, entries |-> <<>>]

\* What fs::read_dir gives for a path: the listing of fs, NoDir for any other.
read_dir(fs, path) == IF path \in DOMAIN fs THEN fs[path] ELSE NoDir

\* The entries the loop `while let Ok(Some(entry)) = items.next_entry()` visits:
\* those before the first one next_entry fails on.
RECURSIVE next_entry(_)
next_entry(items) ==
    IF items = <<>> \/ Head(items).json = "ioerror" THEN <<>>
    ELSE <<Head(items)>> \o next_entry(Tail(items))

\* list_kernels_from_path giving up on a directory that holds a kernel.json it cannot use.
list_kernels_from_path_strict(fs, path) ==
    LET items   == read_dir(fs, join(path, "kernels"))
        entries == next_entry(items.entries)
    IN  IF ~items.ok \/ \E i \in 1..Len(entries) : entries[i].json # "ok" THEN <<>>
        ELSE [i \in 1..Len(entries) |->
                 [path |-> join(join(join(path, "kernels"), entries[i].name), "kernel.json"),
                  kernel |-> entries[i].kernel]]

\* list_kernels_from_path: a (kernel.json path, KernelSpec) pair for each entry
\* whose kernel.json is read and parsed; nothing for a directory that is not read.
list_kernels_from_path(fs, path) ==
    LET items   == read_dir(fs, join(path, "kernels"))
        entries == SelectSeq(next_entry(items.entries), LAMBDA entry : entry.json = "ok")
    IN  IF ~items.ok THEN <<>>
        ELSE [i \in 1..Len(entries) |->
                 [path |-> join(join(join(path, "kernels"), entries[i].name), "kernel.json"),
                  kernel |-> entries[i].kernel]]

\* A directory entry: its name, what reading and parsing its kernel.json gives
\* ("ok", "malformed", "unreadable"; "ioerror" stands for next_entry failing
\* instead of giving an entry), and the KernelSpec of a well-formed file.
Entry(name, json, kernel) == [name |-> name, json |-> json, kernel |-> kernel]

\* The listings a kernels directory is given.
Listings ==
    { NoDir,
      [ok |-> TRUE, entries |-> <<>>],
      [ok |-> TRUE, entries |-> <<Entry("python3", "ok", "python")>>],
      [ok |-> TRUE, entries |-> <<Entry("broken", "malformed", "none"),
                                  Entry("python3", "ok", "python")>>],
      [ok |-> TRUE, entries |-> <<Entry("README", "unreadable", "none"),
                                  Entry("ir", "ok", "R")>>],
      [ok |-> TRUE, entries |-> <<Entry("python3", "ok", "python"),
                                  Entry("", "ioerror", "none"),
                                  Entry("ir", "ok", "R")>>] }

\* The directories of the file system that may hold kernels; <<>> is the
\* empty JUPYTER_PATH entry, whose kernels directory is ./kernels.
KernelDirs == { <<"/opt/jupyter">>, <<"/usr/share/jupyter">>, <<>> }

\* The values of JUPYTER_PATH.
JupyterPaths ==
    { Unset, Set(<<>>), Set(<<"/opt/jupyter">>),
      Set(<<"/opt/jupyter", ":", "/usr/share/jupyter">>),
      Set(<<"/usr/share/jupyter", ":">>) }

InitList ==
    /\ InitConn
    /\ driver = "zmq"
    /\ rc = [r \in 1..MaxRun |-> NoRun]
    /\ cin = NoInput
    /\ cwire = <<>>
    /\ cout = Pending
    /\ hist = NoHist
    /\ body = [c \in Slots |-> NoContent]
    /\ lk = NoLaunch
    /\ \E jp \in JupyterPaths, jdd \in {Unset, Set(<<"/opt/jupyter">>)},
          xdg \in {Unset, Set(<<"/xdg">>)}, prefix \in {Unset, Set(<<"/venv">>)},
          fs \in [{join(d, "kernels") : d \in KernelDirs} -> Listings] :
        ks = [NoListing EXCEPT !.jupyter_path = jp, !.jupyter_data_dir = jdd,
                               !.xdg_data_home = xdg, !.prefix = prefix, !.fs = fs]

\* list_kernels, up to the creation of the per-directory futures.
list_kernels ==
    /\ ks.pc = "idle"
    /\ ks' = [ks EXCEPT !.pc = "listing", !.dirs = data_search_paths(ks, ks.prefix),
                        !.next = 1]
    /\ UNCHANGED <<connVars, runVars, codecVars, histVars, infoVars, lk>>

\* join_all(..).into_iter().flatten(): the result of the next directory is appended.
ListFromPath ==
    /\ ks.pc = "listing"
    /\ ks.next <= Len(ks.dirs)
    /\ ks' = [ks EXCEPT !.kernels = @ \o list_kernels_from_path(ks.fs, ks.dirs[ks.next]),
                        !.next = @ + 1]
    /\ UNCHANGED <<connVars, runVars, codecVars, histVars, infoVars, lk>>

\* collect(): list_kernels returns.
ListCollect ==
    /\ ks.pc = "listing"
    /\ ks.next > Len(ks.dirs)
    /\ ks' = [ks EXCEPT !.pc = "returned"]
    /\ UNCHANGED <<connVars, runVars, codecVars, histVars, infoVars, lk>>

NextList ==
    \/ list_kernels
    \/ ListFromPath
    \/ ListCollect

SpecList == InitList /\ [][NextList]_vars

\* The strings of a sequence joined with ":" between them.
RECURSIVE Joined(_)
Joined(entries) ==
    IF Len(entries) = 1 THEN entries[1]
    ELSE entries[1] \o <<":">> \o Joined(Tail(entries))

\* The number of directories JUPYTER_PATH contributes to ks.dirs.
NPath == Len(ks.dirs) - 3 - (IF ks.prefix.set THEN 1 ELSE 0)

\* The search path is: the pieces of JUPYTER_PATH, the data directory, the
\* prefix directory if any, the two system-wide directories.
SearchPathOrder ==
    /\ NPath >= 0
    /\ NPath = 0 <=> ~ks.jupyter_path.set
    /\ \A i \in 1..NPath : \A j \in 1..Len(ks.dirs[i]) : ks.dirs[i][j] # ":"
    /\ NPath > 0 => Joined(SubSeq(ks.dirs, 1, NPath)) = ks.jupyter_path.val
    /\ ks.dirs[NPath + 1] =
          IF ks.jupyter_data_dir.set THEN ks.jupyter_data_dir.val
          ELSE IF ks.xdg_data_home.set THEN ks.xdg_data_home.val \o <<"/jupyter">>
          ELSE <<"$HOME", "/.local/share/jupyter">>
    /\ ks.prefix.set => ks.dirs[NPath + 2] = ks.prefix.val \o <<"/share/jupyter">>
    /\ SubSeq(ks.dirs, Len(ks.dirs) - 1, Len(ks.dirs)) =
          << <<"/usr/share/jupyter">>, <<"/usr/local/share/jupyter">> >>

\* The positions of the listing of ks.dirs[i] holding a kernel.json that is
\* read and parsed, among the entries the enumeration reaches.
FoundAt(i) ==
    LET items == read_dir(ks.fs, join(ks.dirs[i], "kernels"))
    IN  IF ~items.ok THEN {}
        ELSE { n \in 1..Len(items.entries) :
                 /\ items.entries[n].json = "ok"
                 /\ \A m \in 1..n : items.entries[m].json # "ioerror" }

\* The number of kernels found in the directories before ks.dirs[i].
RECURSIVE FoundBefore(_)
FoundBefore(i) == IF i <= 1 THEN 0 ELSE FoundBefore(i - 1) + Cardinality(FoundAt(i - 1))

\* The kernels of ks.dirs[i] stand after those of every earlier directory, in
\* the order of the listing, each with the path of its kernel.json.
FoundInOrder(i) ==
    LET items == read_dir(ks.fs, join(ks.dirs[i], "kernels"))
    IN  \A n \in FoundAt(i) :
          LET at == FoundBefore(i) + Cardinality({m \in FoundAt(i) : m <= n})
          IN  /\ at <= Len(ks.kernels)
              /\ ks.kernels[at].kernel = items.entries[n].kernel
              /\ ks.kernels[at].path =
                    ks.dirs[i] \o (IF ks.dirs[i] = <<>> THEN <<>> ELSE <<"/">>)
                    \o <<"kernels", "/", items.entries[n].name, "/", "kernel.json">>

\* C31: the search path is the JUPYTER_PATH entries, then JUPYTER_DATA_DIR or
\* the default data directory, then <prefix>/share/jupyter, then the system
\* directories; list_kernels returns exactly the (path, KernelSpec) pairs of
\* the well-formed kernel.json files it enumerates, directory by directory in
\* search-path order, once per occurrence of the directory, and nothing for an
\* unreadable directory, an unreadable or a malformed kernel.json.
C31_SearchPathAndListing ==
    /\ ks.pc # "idle" => SearchPathOrder
    /\ ks.pc = "returned" =>
          /\ Len(ks.kernels) = FoundBefore(Len(ks.dirs) + 1)
          /\ \A i \in 1..Len(ks.dirs) : FoundInOrder(i)

\* list_kernels has returned the same kernel twice, from a directory that is
\* on the search path twice, having skipped a malformed kernel.json and an
\* unreadable directory, with a prefix directory on the path.
C31_Witness ==
    /\ ks.pc = "returned"
    /\ ks.prefix.set
    /\ ks.jupyter_path.set /\ ks.jupyter_data_dir.set
    /\ \E i, j \in 1..Len(ks.kernels) : i < j /\ ks.kernels[i] = ks.kernels[j]
    /\ \E i \in 1..Len(ks.dirs) :
          LET items == read_dir(ks.fs, join(ks.dirs[i], "kernels"))
          IN  \E n \in 1..Len(items.entries) : items.entries[n].json = "malformed"
    /\ \E i \in 1..Len(ks.dirs) : ~read_dir(ks.fs, join(ks.dirs[i], "kernels")).ok
    /\ Len(ks.kernels) >= 3

====
